---- MODULE Spec2Model ----
(***************************************************************************)
(* Stage detection of the work-context-protocol pipeline.                  *)
(*                                                                         *)
(* detectPipelineStage (src/src/prompts/detect-stage.ts) is a pure         *)
(* function of a work item and a map of artifact states.  The module       *)
(* models the map with its optional fields, the function as the code       *)
(* computes it (body check, staleness scan, chain walk, milestone          *)
(* progression, post-implementation), and one action that calls it on an   *)
(* input drawn from bounded sets.                                          *)
(*                                                                         *)
(* Optional fields of a TypeScript object are record fields that may be    *)
(* missing from the record's DOMAIN.  A completedAt string is modelled by  *)
(* its rank among the timestamps of one format and one zone, which the     *)
(* code's string comparison orders as their instants.                      *)
(***************************************************************************)
EXTENDS Integers, Sequences, FiniteSets, TLC

\* Bounds of the model.
MaxTime == 2
MaxMilestones == 2
MaxBodyLen == 2

\* detect-stage.ts:14-23
PIPELINE_CHAIN ==
  << "prd.md", "discovery-report.md", "architecture-proposal.md", "gameplan.md",
     "test-coverage-matrix.md", "progress.md", "review-report.md", "qa-plan.md" >>

\* detect-stage.ts:26-29
GATE_ARTIFACTS == { "architecture-proposal.md", "gameplan.md" }

ChainKinds == { PIPELINE_CHAIN[i] : i \in 1..Len(PIPELINE_CHAIN) }

VARIABLES
  item,       \* the WorkItem handed to detectPipelineStage
  artifacts,  \* the Map<string, ArtifactState> handed to it
  stage,      \* the PipelineStage it returned, NotCalled before the call
  store,      \* the files of FilesystemAdapter: config, work item, artifacts
  result,     \* the last call on the store, its inputs and its error code
  clock,      \* the time of the last write to the store
  calls       \* the createItem call of each server process, step by step

vars == << item, artifacts, stage, store, result, clock, calls >>

---------------------------------------------------------------------------
(* Values *)

NotCalled == [type |-> "not_called"]

\* What a non-null assertion on a missing map entry raises (artifacts.get(k)!.f).
TypeError == [type |-> "TypeError"]

\* The characters a body is made of: one whitespace character, one other.
Chars == { " ", "a" }

\* The whitespace characters of the texts of the store: a blank, a line end.
Whitespace == { " ", "\n" }

IsWhitespace(c) == c \in Whitespace

\* ArtifactState, detect-stage.ts:4-11: filename and exists are required,
\* the other four fields are optional.
HasField(r, f) == f \in DOMAIN r

ArtifactState(filename, exists) == [filename |-> filename, exists |-> exists]

WithField(r, f, v) == (f :> v) @@ r

---------------------------------------------------------------------------
(* detectPipelineStage *)

RECURSIVE TrimStart(_)
TrimStart(s) ==
  IF s /= << >> /\ IsWhitespace(Head(s)) THEN TrimStart(Tail(s)) ELSE s

RECURSIVE TrimEnd(_)
TrimEnd(s) ==
  IF s /= << >> /\ IsWhitespace(s[Len(s)])
  THEN TrimEnd(SubSeq(s, 1, Len(s) - 1))
  ELSE s

\* String.prototype.trim
Trim(s) == TrimEnd(TrimStart(s))

\* detect-stage.ts:56  !item.body || item.body.trim() === ""
BodyMissingMutant(it) == ~HasField(it, "body") \/ it.body = << >>

BodyMissing(it) ==
  \/ ~HasField(it, "body")
  \/ it.body = << >>
  \/ Trim(it.body) = << >>

\* artifacts.get(k)?.exists
ArtifactExists(arts, k) == k \in DOMAIN arts /\ arts[k].exists

\* detect-stage.ts:64-70: the pair is compared only when both artifacts exist
\* and both carry a completedAt, and is stale when the upstream one is later.
StalePairMutant(arts, i) ==
  /\ ArtifactExists(arts, PIPELINE_CHAIN[i])
  /\ ArtifactExists(arts, PIPELINE_CHAIN[i + 1])
  /\ HasField(arts[PIPELINE_CHAIN[i]], "completedAt")
  /\ HasField(arts[PIPELINE_CHAIN[i + 1]], "completedAt")
  /\ arts[PIPELINE_CHAIN[i]].completedAt >= arts[PIPELINE_CHAIN[i + 1]].completedAt

StalePair(arts, i) ==
  /\ ArtifactExists(arts, PIPELINE_CHAIN[i])
  /\ ArtifactExists(arts, PIPELINE_CHAIN[i + 1])
  /\ HasField(arts[PIPELINE_CHAIN[i]], "completedAt")
  /\ HasField(arts[PIPELINE_CHAIN[i + 1]], "completedAt")
  /\ arts[PIPELINE_CHAIN[i]].completedAt > arts[PIPELINE_CHAIN[i + 1]].completedAt

NoStale == [type |-> "none"]

StaleResult(arts, i) ==
  [type |-> "stale",
   artifact |-> arts[PIPELINE_CHAIN[i + 1]].filename,
   upstream |-> arts[PIPELINE_CHAIN[i]].filename]

\* detect-stage.ts:61-78: the loop over adjacent pairs, from pair i on.
RECURSIVE StaleScanFrom(_, _)
StaleScanFrom(arts, i) ==
  IF i > Len(PIPELINE_CHAIN) - 1 THEN NoStale
  ELSE IF StalePair(arts, i) THEN StaleResult(arts, i)
  ELSE StaleScanFrom(arts, i + 1)

\* The same loop run from the last pair down: it reports the last stale pair.
RECURSIVE StaleScanDownFrom(_, _)
StaleScanDownFrom(arts, i) ==
  IF i < 1 THEN NoStale
  ELSE IF StalePair(arts, i) THEN StaleResult(arts, i)
  ELSE StaleScanDownFrom(arts, i - 1)

StaleScanMutant(arts) == StaleScanDownFrom(arts, Len(PIPELINE_CHAIN) - 1)

StaleScan(arts) == StaleScanFrom(arts, 1)

\* detect-stage.ts:93-94, 102-103: artifacts.get(k)!.approval !== "approved"
GateUnapprovedMutant(arts, k) ==
  HasField(arts[k], "approval") /\ arts[k].approval = "rejected"

GateUnapproved(arts, k) ==
  ~(HasField(arts[k], "approval") /\ arts[k].approval = "approved")

\* detect-stage.ts:136-146
PostImplementationMutant(arts) ==
  IF ~ArtifactExists(arts, "qa-plan.md") THEN [type |-> "qa_plan"]
  ELSE IF ~ArtifactExists(arts, "review-report.md") THEN [type |-> "review"]
  ELSE [type |-> "complete"]

PostImplementationShortMutant(arts) ==
  IF ~ArtifactExists(arts, "review-report.md") THEN [type |-> "review"]
  ELSE [type |-> "complete"]

PostImplementation(arts) ==
  IF ~ArtifactExists(arts, "review-report.md") THEN [type |-> "review"]
  ELSE IF ~ArtifactExists(arts, "qa-plan.md") THEN [type |-> "qa_plan"]
  ELSE [type |-> "complete"]

\* detect-stage.ts:115  gameplanState.milestoneCount
TotalKnown(arts) == HasField(arts["gameplan.md"], "milestoneCount")

\* detect-stage.ts:116  progressState?.completedMilestones
CompletedKnown(arts) ==
  /\ "progress.md" \in DOMAIN arts
  /\ HasField(arts["progress.md"], "completedMilestones")

\* detect-stage.ts:118-126: both counters known
ConcreteMilestonesMutant(arts) ==
  IF arts["progress.md"].completedMilestones < arts["gameplan.md"].milestoneCount
  THEN [type |-> "implementation",
        milestone |-> arts["progress.md"].completedMilestones,
        totalMilestones |-> arts["gameplan.md"].milestoneCount]
  ELSE PostImplementation(arts)

ConcreteMilestones(arts) ==
  IF arts["progress.md"].completedMilestones < arts["gameplan.md"].milestoneCount
  THEN [type |-> "implementation",
        milestone |-> arts["progress.md"].completedMilestones + 1,
        totalMilestones |-> arts["gameplan.md"].milestoneCount]
  ELSE PostImplementation(arts)

\* detect-stage.ts:127-134: a counter is unknown
DefaultMilestonesMutant(arts) ==
  IF ~ArtifactExists(arts, "review-report.md")
  THEN [type |-> "implementation", milestone |-> 1, totalMilestones |-> 1]
  ELSE PostImplementation(arts)

DefaultMilestones(arts) ==
  IF ~ArtifactExists(arts, "review-report.md")
  THEN [type |-> "implementation",
        milestone |-> 1,
        totalMilestones |->
          IF TotalKnown(arts) THEN arts["gameplan.md"].milestoneCount ELSE 1]
  ELSE PostImplementation(arts)

\* detect-stage.ts:111-134
MilestoneProgressionMutant(arts) == DefaultMilestones(arts)

MilestoneProgression(arts) ==
  IF TotalKnown(arts) /\ CompletedKnown(arts)
  THEN ConcreteMilestones(arts)
  ELSE DefaultMilestones(arts)

\* detect-stage.ts:98-109: from the gameplan on, architecture being approved
GameplanWalkMutant(arts) ==
  IF ~ArtifactExists(arts, "gameplan.md") THEN [type |-> "gameplan"]
  ELSE IF ~ArtifactExists(arts, "test-coverage-matrix.md")
    THEN [type |-> "test_generation"]
  ELSE IF "gameplan.md" \notin DOMAIN arts THEN TypeError
  ELSE IF GateUnapproved(arts, "gameplan.md") THEN [type |-> "gameplan_review"]
  ELSE MilestoneProgression(arts)

GameplanWalk(arts) ==
  IF ~ArtifactExists(arts, "gameplan.md") THEN [type |-> "gameplan"]
  ELSE IF "gameplan.md" \notin DOMAIN arts THEN TypeError
  ELSE IF GateUnapproved(arts, "gameplan.md") THEN [type |-> "gameplan_review"]
  ELSE IF ~ArtifactExists(arts, "test-coverage-matrix.md")
    THEN [type |-> "test_generation"]
  ELSE MilestoneProgression(arts)

\* artifacts.get(k)?.exists === false
MarkedMissing(arts, k) == k \in DOMAIN arts /\ ~arts[k].exists

\* The walk asking only whether an entry is marked as not existing: a kind
\* without an entry is then taken to exist.
ChainWalkStrictMutant(arts) ==
  IF MarkedMissing(arts, "prd.md") THEN [type |-> "prd"]
  ELSE IF MarkedMissing(arts, "discovery-report.md") THEN [type |-> "discovery"]
  ELSE IF MarkedMissing(arts, "architecture-proposal.md")
    THEN [type |-> "architecture"]
  ELSE IF "architecture-proposal.md" \notin DOMAIN arts THEN TypeError
  ELSE IF GateUnapproved(arts, "architecture-proposal.md")
    THEN [type |-> "architecture_review"]
  ELSE GameplanWalk(arts)

\* detect-stage.ts:80-96
ChainWalkMutant(arts) ==
  IF ~ArtifactExists(arts, "prd.md") THEN [type |-> "prd"]
  ELSE IF ~ArtifactExists(arts, "architecture-proposal.md")
    THEN [type |-> "architecture"]
  ELSE IF ~ArtifactExists(arts, "discovery-report.md") THEN [type |-> "discovery"]
  ELSE IF "architecture-proposal.md" \notin DOMAIN arts THEN TypeError
  ELSE IF GateUnapproved(arts, "architecture-proposal.md")
    THEN [type |-> "architecture_review"]
  ELSE GameplanWalk(arts)

ChainWalk(arts) ==
  IF ~ArtifactExists(arts, "prd.md") THEN [type |-> "prd"]
  ELSE IF ~ArtifactExists(arts, "discovery-report.md") THEN [type |-> "discovery"]
  ELSE IF ~ArtifactExists(arts, "architecture-proposal.md")
    THEN [type |-> "architecture"]
  ELSE IF "architecture-proposal.md" \notin DOMAIN arts THEN TypeError
  ELSE IF GateUnapproved(arts, "architecture-proposal.md")
    THEN [type |-> "architecture_review"]
  ELSE GameplanWalk(arts)

\* The function short-cut by the item's status.
detectPipelineStageMutant(it, arts) ==
  IF BodyMissing(it) THEN [type |-> "needs_body"]
  ELSE IF it.status = "done" THEN [type |-> "complete"]
  ELSE IF StaleScan(arts) /= NoStale THEN StaleScan(arts)
  ELSE ChainWalk(arts)

\* detect-stage.ts:51-147
detectPipelineStage(it, arts) ==
  IF BodyMissing(it) THEN [type |-> "needs_body"]
  ELSE IF StaleScan(arts) /= NoStale THEN StaleScan(arts)
  ELSE ChainWalk(arts)

---------------------------------------------------------------------------
(* Inputs *)

Times == 1..MaxTime

Milestones == 0..MaxMilestones

ApprovalValues == { "approved", "rejected", "pending" }

\* An ArtifactState for kind k.  t = 0, ap = "none", mc = -1 and cm = -1
\* leave the optional field out.
MakeState(k, ex, t, ap, mc, cm) ==
  LET e0 == ArtifactState(k, ex)
      e1 == IF t > 0 THEN WithField(e0, "completedAt", t) ELSE e0
      e2 == IF ap /= "none" THEN WithField(e1, "approval", ap) ELSE e1
      e3 == IF mc >= 0 THEN WithField(e2, "milestoneCount", mc) ELSE e2
  IN  IF cm >= 0 THEN WithField(e3, "completedMilestones", cm) ELSE e3

\* A WorkItem (adapter.ts:27-32); body is left out when b is "absent".
MakeItem(id, status, refs, b) ==
  LET it == [id |-> id, title |-> "Test item", status |-> status,
             activity |-> << >>, artifacts |-> refs]
  IN  IF b = << "absent" >> THEN it ELSE WithField(it, "body", b)

BodyTexts == UNION { [1..n -> Chars] : n \in 0..MaxBodyLen }

Bodies == BodyTexts \cup { << "absent" >> }

\* Scan snapshots: every kind is missing (0), present without a completedAt
\* (1), or present with the first (2) or the last (3) time; the gates carry
\* the approval ap.
ScanSnapshot(c, ap) ==
  [k \in ChainKinds |->
     MakeState(k, c[k] > 0,
               IF c[k] = 3 THEN MaxTime ELSE IF c[k] = 2 THEN 1 ELSE 0,
               IF k \in GATE_ARTIFACTS THEN ap ELSE "none", -1, -1)]

\* Time snapshots: every kind is missing (0) or present with any time; the
\* gates are approved.
TimeSnapshot(c) ==
  [k \in ChainKinds |->
     MakeState(k, c[k] > 0, c[k],
               IF k \in GATE_ARTIFACTS THEN "approved" ELSE "none", -1, -1)]

\* Walk snapshots: every kind is missing or present, each gate carries any
\* approval or none, both milestone counters are unknown or any count, and
\* the present artifacts are all stamped alike.
WalkSnapshot(ex, ap, mc, cm) ==
  [k \in ChainKinds |->
     MakeState(k, ex[k], IF ex[k] THEN 1 ELSE 0,
               IF k \in GATE_ARTIFACTS THEN ap[k] ELSE "none",
               IF k = "gameplan.md" THEN mc ELSE -1,
               IF k = "progress.md" THEN cm ELSE -1)]

\* Partial maps: a kind has no entry, an entry that does not exist or one
\* that does, with no optional field but the approval ap of the gates.
PartialSnapshot(D, ex, ap) ==
  [k \in D |->
     MakeState(k, ex[k], 0,
               IF k \in GATE_ARTIFACTS THEN ap ELSE "none", -1, -1)]

\* Snapshots tried with every body: every kind is missing (0) or present
\* with the first (1) or the last (2) time; the gates are pending.
BodySnapshot(c) ==
  [k \in ChainKinds |->
     MakeState(k, c[k] > 0, IF c[k] = 2 THEN MaxTime ELSE c[k],
               IF k \in GATE_ARTIFACTS THEN "pending" ELSE "none", -1, -1)]

TestItem(b) == MakeItem("TEST-1", "backlog", << >>, b)

---------------------------------------------------------------------------
(* The store of FilesystemAdapter: config, one work item file, its artifacts *)

\* A path that holds no file.
NoFile == [header |-> "nofile"]

\* The empty string handed over as a content.
EmptyString == [header |-> "empty"]

\* A record without fields: the data of a content without a header.
EmptyData == [f \in {} |-> f]

NoMarkers == [i \in {} |-> i]

\* The content of an artifact file.  header tells whether the content starts
\* with no header ("none"), with a YAML header that parses ("yaml") or with
\* one that does not ("bad"); data holds the header's fields but the
\* pipeline_m<i>_completed_at ones, which markers holds by their index i (0
\* is an empty value); body is the text after the header, known by the
\* number of its '## M<n>:' headings.
Content(header, data, markers, body) ==
  [header |-> header, data |-> data, markers |-> markers, body |-> body]

WithoutField(r, f) == [g \in DOMAIN r \ { f } |-> r[g]]

\* Errors, by the code the callers test (approve-test.ts:176, 195, 233).
ValidationError == [error |-> "VALIDATION_ERROR"]

NamespaceNotFoundError == [error |-> "NAMESPACE_NOT_FOUND"]

NotFoundError == [error |-> "NOT_FOUND"]

\* What the YAML parser raises on a header it cannot parse.
YAMLException == [error |-> "YAMLException"]

IsError(r) == "error" \in DOMAIN r

\* gray-matter's matter(content): the header's data and the rest.
matter(c) ==
  IF c.header = "bad" THEN YAMLException
  ELSE [data |-> c.data, markers |-> c.markers, content |-> c.body]

\* gray-matter's matter.stringify(content, data): a header is written unless
\* the data is empty.
stringify(body, data, markers) ==
  Content(IF data = EmptyData /\ markers = NoMarkers THEN "none" ELSE "yaml",
          data, markers, body)

\* utils.ts: parseCallsign, /^([A-Z]+)-(\d+)$/ over ids made of these
\* characters.
UpperCase == { "T", "N" }

DecimalDigits == << "0", "1", "2", "3", "4", "5", "6", "7", "8", "9" >>

Digits == { DecimalDigits[i] : i \in 1..Len(DecimalDigits) }

CallsignSplit(id) ==
  { i \in 2..(Len(id) - 1) :
      /\ id[i] = "-"
      /\ \A j \in 1..(i - 1) : id[j] \in UpperCase
      /\ \A j \in (i + 1)..Len(id) : id[j] \in Digits }

parseCallsign(id) ==
  IF CallsignSplit(id) = {} THEN ValidationError
  ELSE LET i == CHOOSE j \in CallsignSplit(id) : TRUE
       IN  [namespace |-> SubSeq(id, 1, i - 1),
            number |-> SubSeq(id, i + 1, Len(id))]

\* validation.ts: validateVerdict
VALID_VERDICTS == { "approved", "rejected" }

validateVerdict(verdict) == verdict \in VALID_VERDICTS

\* config.ts:17-22 DEFAULT_SCHEMA; the configuration of the store carries
\* no schema of its own and no namespace extension.
DEFAULT_SCHEMA ==
  [status |-> { "backlog", "todo", "in_progress", "in_review", "done", "cancelled" },
   priority |-> { "urgent", "high", "medium", "low" },
   type |-> { "feature", "bug", "chore", "spike" }]

\* index.ts:545-573 validateStatus, validatePriority, validateType
validateStatus(value) == value \in DEFAULT_SCHEMA.status

validatePriority(value) == value \in DEFAULT_SCHEMA.priority

validateType(value) == value \in DEFAULT_SCHEMA.type

\* validation.ts: validateArtifactType against the resolved schema
validateArtifactType(s, type) == type \in s.config.artifact_type

\* A number in decimal, as a template literal writes it.
RECURSIVE Decimal(_)
Decimal(n) ==
  IF n < 10 THEN << DecimalDigits[n + 1] >>
  ELSE Decimal(n \div 10) \o << DecimalDigits[(n % 10) + 1] >>

\* filesystem.ts:209  `${namespace}-${num}`
Callsign(namespace, num) == namespace \o << "-" >> \o Decimal(num)

T1 == << "T", "-", "1" >>

\* The file of the work item id, NoFile when there is none.
ItemFile(s, id) == IF id \in DOMAIN s.items THEN s.items[id] ELSE NoFile

\* The artifact files of the store are the ones of the item T-1.
ArtifactFile(s, id, filename) ==
  IF id = T1 /\ filename \in DOMAIN s.files THEN s.files[filename] ELSE NoFile

\* A text is the sequence of its pieces: whitespace characters, words,
\* activity entries, and the separator text.
\* parser.ts:9 ACTIVITY_SEPARATOR
ACTIVITY_SEPARATOR == "---\n\n## Activity"

\* content.indexOf(ACTIVITY_SEPARATOR): the first piece that is the
\* separator, 0 for -1.
SeparatorIndex(content) ==
  LET at == { i \in 1..Len(content) : content[i] = ACTIVITY_SEPARATOR }
  IN  IF at = { } THEN 0 ELSE CHOOSE i \in at : \A j \in at : i <= j

\* parser.ts:11-29 parseWorkItem; gray-matter raises on a malformed header.
parseWorkItem(file) ==
  IF file.malformed THEN YAMLException
  ELSE LET sepIndex == SeparatorIndex(file.content)
       IN  IF sepIndex = 0
           THEN [frontmatter |-> file.frontmatter,
                 body |-> Trim(file.content),
                 activity |-> << >>]
           ELSE [frontmatter |-> file.frontmatter,
                 body |-> Trim(SubSeq(file.content, 1, sepIndex - 1)),
                 activity |-> Trim(SubSeq(file.content, sepIndex + 1,
                                          Len(file.content)))]

\* parser.ts:31-39 serializeWorkItem
serializeWorkItem(parsed) ==
  LET bodySection == IF parsed.body /= << >>
                     THEN << "\n" >> \o parsed.body \o << "\n" >>
                     ELSE << >>
      activitySection ==
        IF parsed.activity /= << >>
        THEN << "\n", ACTIVITY_SEPARATOR, "\n", "\n" >> \o parsed.activity \o << "\n" >>
        ELSE << "\n", ACTIVITY_SEPARATOR, "\n" >>
  IN  [malformed |-> FALSE, frontmatter |-> parsed.frontmatter,
       content |-> bodySection \o activitySection]

\* The text getItem returns as the body of a file it cannot parse.
RawContent == << "a", "a" >>

\* filesystem.ts:138-183 getItem
getItem(s, id) ==
  LET cs == parseCallsign(id)
  IN  IF IsError(cs) THEN cs
      ELSE IF cs.namespace \notin DOMAIN s.config.namespaces THEN NamespaceNotFoundError
      ELSE IF ItemFile(s, id) = NoFile THEN NotFoundError
      ELSE LET parsed == parseWorkItem(ItemFile(s, id))
           IN  IF IsError(parsed)
               THEN [id |-> id, title |-> "(parse error)", status |-> "unknown",
                     updated |-> 0, body |-> RawContent, activity |-> << >>,
                     artifacts |-> << >>, warning |-> "Failed to parse frontmatter"]
               ELSE [id |-> id, title |-> parsed.frontmatter.title,
                     status |-> parsed.frontmatter.status,
                     updated |-> parsed.frontmatter.updated,
                     body |-> parsed.body, activity |-> parsed.activity,
                     artifacts |-> IF HasField(parsed.frontmatter, "artifacts")
                                   THEN parsed.frontmatter.artifacts
                                   ELSE << >>]

\* filesystem.ts:419-455 getArtifact
getArtifact(s, id, filename) ==
  LET cs == parseCallsign(id)
  IN  IF filename = "" THEN ValidationError
      ELSE IF IsError(cs) THEN cs
      ELSE IF cs.namespace \notin DOMAIN s.config.namespaces THEN NamespaceNotFoundError
      ELSE IF ItemFile(s, id) = NoFile THEN NotFoundError
      ELSE IF ArtifactFile(s, id, filename) = NoFile THEN NotFoundError
      ELSE [content |-> ArtifactFile(s, id, filename)]

\* The outcome of an operation that writes: the store it leaves and the
\* code of the error it raised, "none" when it returned.
Outcome(s, code) == [store |-> s, code |-> code]

Url(namespace, id, filename) == << namespace, id, filename >>

\* filesystem.ts:388-410: the first reference of the same url is replaced
\* in place, a new one is appended.
RegisterMutant(refs, ref) == Append(refs, ref)

Register(refs, ref) ==
  LET same == { i \in 1..Len(refs) : refs[i].url = ref.url }
  IN  IF same = {} THEN Append(refs, ref)
      ELSE LET existingIdx == CHOOSE i \in same : \A j \in same : i <= j
           IN  [refs EXCEPT ![existingIdx] = ref]

\* filesystem.ts:351-417 attachArtifact, called at time t
attachArtifactMutant(s, id, input, t) ==
  Outcome([s EXCEPT !.files[input.filename] =
             Content("none", EmptyData, NoMarkers, 0)], "none")

attachArtifact(s, id, input, t) ==
  LET cs == parseCallsign(id)
  IN  IF input.filename = "" THEN Outcome(s, ValidationError.error)
      ELSE IF input.content = EmptyString THEN Outcome(s, ValidationError.error)
      ELSE IF IsError(cs) THEN Outcome(s, cs.error)
      ELSE IF cs.namespace \notin DOMAIN s.config.namespaces
           THEN Outcome(s, NamespaceNotFoundError.error)
      ELSE IF ~validateArtifactType(s, input.type)
           THEN Outcome(s, ValidationError.error)
      ELSE IF ItemFile(s, id) = NoFile THEN Outcome(s, NotFoundError.error)
      ELSE LET written == [s EXCEPT !.files[input.filename] = input.content]
               parsed == parseWorkItem(ItemFile(written, id))
           IN  IF IsError(parsed) THEN Outcome(written, parsed.error)
               ELSE LET artifact == [type |-> input.type, title |-> input.title,
                                     url |-> Url(cs.namespace, id, input.filename)]
                        listed == IF HasField(parsed.frontmatter, "artifacts")
                                  THEN parsed.frontmatter.artifacts
                                  ELSE << >>
                        fm == WithField(WithField(parsed.frontmatter, "artifacts",
                                                  Register(listed, artifact)),
                                        "updated", t)
                    IN  Outcome([written EXCEPT !.items[id] =
                                   serializeWorkItem([parsed EXCEPT !.frontmatter = fm])],
                                "none")

\* utils.ts:21-23 now(): the time t as text
now(t) == ToString(t)

\* filesystem.ts:273, 335, 497: an entry of the activity log, written by
\* author at time t (the dash of the source is written -)
Entry(author, t, text) == "**" \o author \o "** - " \o now(t) \o "\n" \o text

\* filesystem.ts:274-278, 337-341, 498-502: the entry goes to the end of the
\* log, after a blank line when the log is not empty
AppendEntry(activity, entry) ==
  IF activity /= << >> THEN activity \o << "\n", "\n", entry >> ELSE << entry >>

\* filesystem.ts:493-500: the entry an approval appends to the activity log
ApprovalEntry(filename, verdict, t) ==
  Entry("system", t, "Artifact " \o filename \o ": " \o verdict)

\* filesystem.ts:478-490: the artifact rewritten with the verdict
WithVerdictMutant(c, verdict, t) ==
  LET parsed == matter(c)
      data == [approval |-> verdict]
  IN  stringify(parsed.content,
                IF verdict = "approved"
                THEN WithField(data, "pipeline_approved_at", t)
                ELSE data,
                parsed.markers)

WithVerdict(c, verdict, t) ==
  LET parsed == matter(c)
      data == WithField(parsed.data, "approval", verdict)
  IN  stringify(parsed.content,
                IF verdict = "approved"
                THEN WithField(data, "pipeline_approved_at", t)
                ELSE WithoutField(data, "pipeline_approved_at"),
                parsed.markers)

\* filesystem.ts:457-509 approveArtifact, called at time t
approveArtifact(s, id, input, t) ==
  LET cs == parseCallsign(id)
  IN  IF IsError(cs) THEN Outcome(s, cs.error)
      ELSE IF cs.namespace \notin DOMAIN s.config.namespaces
           THEN Outcome(s, NamespaceNotFoundError.error)
      ELSE IF ~validateVerdict(input.verdict) THEN Outcome(s, ValidationError.error)
      ELSE IF ItemFile(s, id) = NoFile THEN Outcome(s, NotFoundError.error)
      ELSE IF ArtifactFile(s, id, input.filename) = NoFile
           THEN Outcome(s, NotFoundError.error)
      ELSE IF IsError(matter(ArtifactFile(s, id, input.filename)))
           THEN Outcome(s, YAMLException.error)
      ELSE LET written ==
                 [s EXCEPT !.files[input.filename] =
                    WithVerdict(ArtifactFile(s, id, input.filename), input.verdict, t)]
               parsedItem == parseWorkItem(ItemFile(written, id))
           IN  IF IsError(parsedItem) THEN Outcome(written, parsedItem.error)
               ELSE Outcome(
                      [written EXCEPT !.items[id] =
                         serializeWorkItem(
                           [parsedItem EXCEPT
                              !.activity =
                                 AppendEntry(@, ApprovalEntry(input.filename,
                                                              input.verdict, t)),
                              !.frontmatter.updated = t])],
                      "none")

---------------------------------------------------------------------------
(* createItem, updateItem, addComment *)

\* A string field of an input that is given and truthy (if (input.f)).
Given(input, f) == HasField(input, f) /\ input[f] /= ""

\* A text or list field of an input that is given and not empty.
GivenList(input, f) == HasField(input, f) /\ input[f] /= << >>

\* What a write raises when the file system refuses it.
WriteError == [error |-> "EIO"]

\* The optional fields createItem and updateItem copy.
OptionalFields == { "priority", "type", "project", "assignee", "parent" }

\* filesystem.ts:212-227: the frontmatter of a new item
NewFrontmatter(callsign, input, status, t) ==
  LET required == [id |-> callsign, title |-> input.title, status |-> status,
                   created |-> t, updated |-> t]
      copied == { f \in OptionalFields : Given(input, f) }
                  \cup ( IF GivenList(input, "artifacts") THEN { "artifacts" } ELSE { } )
  IN  [f \in copied |-> input[f]] @@ required

\* filesystem.ts:188-247 createItem, called at time t; the write number
\* fail (1 the configuration, 2 the item file) is refused, 0 for none.  A
\* call that returns gives the callsign with the store.
createItemMutant(s, namespace, input, t, fail) ==
  LET callsign == Callsign(namespace, 1)
  IN  [store |-> [s EXCEPT !.items[callsign] =
                    serializeWorkItem([frontmatter |->
                                         NewFrontmatter(callsign, input, "backlog", t),
                                       body |-> << >>, activity |-> << >>])],
       code |-> "none", callsign |-> callsign]

createItem(s, namespace, input, t, fail) ==
  IF namespace \notin DOMAIN s.config.namespaces
  THEN Outcome(s, NamespaceNotFoundError.error)
  ELSE
    LET status == IF Given(input, "status") THEN input.status ELSE "backlog"
        num == s.config.namespaces[namespace].next
        callsign == Callsign(namespace, num)
        fileContent ==
          serializeWorkItem([frontmatter |-> NewFrontmatter(callsign, input, status, t),
                             body |-> IF GivenList(input, "body") THEN input.body
                                      ELSE << >>,
                             activity |-> << >>])
        counted == [s EXCEPT !.config.namespaces[namespace].next = num + 1]
    IN  IF ~validateStatus(status) THEN Outcome(s, ValidationError.error)
        ELSE IF Given(input, "priority") /\ ~validatePriority(input.priority)
             THEN Outcome(s, ValidationError.error)
        ELSE IF Given(input, "type") /\ ~validateType(input.type)
             THEN Outcome(s, ValidationError.error)
        ELSE IF fail = 1 THEN Outcome(s, WriteError.error)
        ELSE IF fail = 2 THEN Outcome(counted, WriteError.error)
        ELSE [store |-> [counted EXCEPT !.items[callsign] = fileContent],
              code |-> "none", callsign |-> callsign]

\* filesystem.ts:271-273: the entry a status transition appends (the arrow
\* of the source is written ->)
StatusEntry(old, new, t) ==
  Entry("system", t, "Status changed: " \o old \o " -> " \o new)

\* filesystem.ts:281-300: the frontmatter after the changes
Changed(frontmatter, changes, t) ==
  LET set == { f \in OptionalFields \cup { "title", "status" } : HasField(changes, f) }
      fields == [f \in set |-> changes[f]] @@ frontmatter
      listed == IF GivenList(changes, "addArtifacts")
                THEN WithField(fields, "artifacts",
                               ( IF HasField(fields, "artifacts") THEN fields.artifacts
                                 ELSE << >> ) \o changes.addArtifacts)
                ELSE fields
  IN  WithField(listed, "updated", t)

\* filesystem.ts:249-313 updateItem, called at time t; fail = 1 refuses the
\* write.
updateItem(s, id, changes, t, fail) ==
  LET cs == parseCallsign(id)
  IN  IF IsError(cs) THEN Outcome(s, cs.error)
      ELSE IF cs.namespace \notin DOMAIN s.config.namespaces
           THEN Outcome(s, NamespaceNotFoundError.error)
      ELSE IF ItemFile(s, id) = NoFile THEN Outcome(s, NotFoundError.error)
      ELSE IF Given(changes, "status") /\ ~validateStatus(changes.status)
           THEN Outcome(s, ValidationError.error)
      ELSE IF Given(changes, "priority") /\ ~validatePriority(changes.priority)
           THEN Outcome(s, ValidationError.error)
      ELSE IF Given(changes, "type") /\ ~validateType(changes.type)
           THEN Outcome(s, ValidationError.error)
      ELSE
        LET parsed == parseWorkItem(ItemFile(s, id))
        IN  IF IsError(parsed) THEN Outcome(s, parsed.error)
            ELSE
              LET activity ==
                    IF HasField(changes, "status")
                         /\ changes.status /= parsed.frontmatter.status
                    THEN AppendEntry(parsed.activity,
                                     StatusEntry(parsed.frontmatter.status,
                                                 changes.status, t))
                    ELSE parsed.activity
                  newContent ==
                    serializeWorkItem(
                      [frontmatter |-> Changed(parsed.frontmatter, changes, t),
                       body |-> IF HasField(changes, "body") THEN changes.body
                                ELSE parsed.body,
                       activity |-> activity])
              IN  IF fail = 1 THEN Outcome(s, WriteError.error)
                  ELSE Outcome([s EXCEPT !.items[id] = newContent], "none")

\* The string a text is: its pieces one after the other.
RECURSIVE Text(_)
Text(pieces) == IF pieces = << >> THEN "" ELSE Head(pieces) \o Text(Tail(pieces))

\* filesystem.ts:315-349 addComment, called at time t; fail = 1 refuses the
\* write.
addCommentMutant(s, id, author, body, t, fail) ==
  LET parsed == parseWorkItem(ItemFile(s, id))
  IN  Outcome([s EXCEPT !.items[id] =
                 serializeWorkItem(
                   [parsed EXCEPT !.body = << >>,
                                  !.activity = AppendEntry(@, Entry(author, t, Text(body)))])],
              "none")

addComment(s, id, author, body, t, fail) ==
  LET cs == parseCallsign(id)
  IN  IF body = << >> \/ Trim(body) = << >> THEN Outcome(s, ValidationError.error)
      ELSE IF IsError(cs) THEN Outcome(s, cs.error)
      ELSE IF cs.namespace \notin DOMAIN s.config.namespaces
           THEN Outcome(s, NamespaceNotFoundError.error)
      ELSE IF ItemFile(s, id) = NoFile THEN Outcome(s, NotFoundError.error)
      ELSE
        LET parsed == parseWorkItem(ItemFile(s, id))
        IN  IF IsError(parsed) THEN Outcome(s, parsed.error)
            ELSE
              LET comment == Entry(author, t, Text(Trim(body)))
                  newContent ==
                    serializeWorkItem(
                      [parsed EXCEPT !.activity = AppendEntry(@, comment),
                                     !.frontmatter.updated = t])
              IN  IF fail = 1 THEN Outcome(s, WriteError.error)
                  ELSE Outcome([s EXCEPT !.items[id] = newContent], "none")

---------------------------------------------------------------------------
(* buildArtifactStates and workPromptHandler *)

\* work.ts:140-149 parseArtifactFrontmatter
parseArtifactFrontmatter(c) ==
  IF IsError(matter(c)) THEN [data |-> EmptyData, markers |-> NoMarkers]
  ELSE [data |-> matter(c).data, markers |-> matter(c).markers]

\* work.ts:194: the highest marker the loop looks at
MarkerLoopLimit == 100

Truthy(v) == v /= 0

\* work.ts:193-201: the loop leaves at the first index that is past the
\* limit or has no marker holding a value, having counted the ones before.
LoopExits(markers) ==
  { i \in 1..(MarkerLoopLimit + 1) :
      i > MarkerLoopLimit \/ ~(i \in DOMAIN markers /\ Truthy(markers[i])) }

LoopExit(markers) ==
  CHOOSE i \in LoopExits(markers) : \A j \in LoopExits(markers) : i <= j

CountCompletedMutant(markers) ==
  Cardinality({ i \in DOMAIN markers : Truthy(markers[i]) })

CountCompleted(markers) == LoopExit(markers) - 1

\* work.ts:187-188: the milestone headings of the content
Headings(c) == c.body

\* work.ts:171-204: the state of a fetched artifact
FetchedStateMutant(filename, c) ==
  LET fm == parseArtifactFrontmatter(c)
      e0 == ArtifactState(filename, TRUE)
      e1 == IF HasField(fm.data, "pipeline_completed_at")
            THEN WithField(e0, "completedAt", fm.data.pipeline_completed_at)
            ELSE e0
      e2 == IF HasField(fm.data, "approval") /\ fm.data.approval = "rejected"
            THEN ArtifactState(filename, FALSE)
            ELSE WithField(e1, "approval",
                           IF HasField(fm.data, "approval") THEN fm.data.approval
                           ELSE "pending")
      e3 == IF filename = "gameplan.md"
            THEN WithField(e2, "milestoneCount", Headings(c))
            ELSE e2
  IN  IF filename = "progress.md"
      THEN WithField(e3, "completedMilestones", CountCompleted(fm.markers))
      ELSE e3

FetchedState(filename, c) ==
  LET fm == parseArtifactFrontmatter(c)
      e0 == ArtifactState(filename, TRUE)
      e1 == IF HasField(fm.data, "pipeline_completed_at")
            THEN WithField(e0, "completedAt", fm.data.pipeline_completed_at)
            ELSE e0
      e2 == IF filename \in GATE_ARTIFACTS
            THEN WithField(e1, "approval",
                           IF HasField(fm.data, "approval") THEN fm.data.approval
                           ELSE "pending")
            ELSE e1
      e3 == IF filename = "gameplan.md"
            THEN WithField(e2, "milestoneCount", Headings(c))
            ELSE e2
  IN  IF filename = "progress.md"
      THEN WithField(e3, "completedMilestones", CountCompleted(fm.markers))
      ELSE e3

\* work.ts:160-162: the filenames of the item's references
Filename(ref) == ref.url[Len(ref.url)]

existingFiles(it) == { Filename(it.artifacts[i]) : i \in 1..Len(it.artifacts) }

\* work.ts:153-212 buildArtifactStates
buildArtifactStatesMutant(s, it) ==
  [filename \in ChainKinds |->
     IF IsError(getArtifact(s, it.id, filename))
     THEN ArtifactState(filename, FALSE)
     ELSE FetchedState(filename, getArtifact(s, it.id, filename).content)]

buildArtifactStates(s, it) ==
  [filename \in ChainKinds |->
     IF filename \notin existingFiles(it) THEN ArtifactState(filename, FALSE)
     ELSE IF IsError(getArtifact(s, it.id, filename))
          THEN ArtifactState(filename, FALSE)
          ELSE FetchedState(filename, getArtifact(s, it.id, filename).content)]

\* work.ts:20-109 workPromptHandler: the store it leaves, what it computed
\* and the code of the error it raised.
workPromptHandlerMutant(s, id) ==
  LET it == getItem(s, id)
  IN  IF IsError(it) THEN [store |-> s, code |-> it.error]
      ELSE LET artifactStates == buildArtifactStates(s, it)
           IN  [store |-> [s EXCEPT !.files["prd.md"] = NoFile], code |-> "none",
                item |-> it,
                artifacts |-> artifactStates,
                stage |-> detectPipelineStage(it, artifactStates)]

workPromptHandler(s, id) ==
  LET it == getItem(s, id)
  IN  IF IsError(it) THEN [store |-> s, code |-> it.error]
      ELSE LET artifactStates == buildArtifactStates(s, it)
           IN  [store |-> s, code |-> "none", item |-> it,
                artifacts |-> artifactStates,
                stage |-> detectPipelineStage(it, artifactStates)]

---------------------------------------------------------------------------
(* Stores and calls the store specification starts from and draws *)

\* The highest time at which an operation writes.
MaxClock == 1

Namespace == << "T" >>

\* The configuration: one namespace, whose counter stands after T-1.
Config ==
  [namespaces |-> [ns \in { Namespace } |-> [next |-> 2]],
   artifact_type |-> { "adr", "plan" }]

\* The highest number of a work item.
MaxItems == 3

ItemIds == { Callsign(Namespace, n) : n \in 1..MaxItems }

\* The work item files of a store whose only item is T-1.
OnlyItem(file) == [id \in ItemIds |-> IF id = T1 THEN file ELSE NoFile]

\* The artifact files of the item: the chain kinds and one other file.
Filenames == ChainKinds \cup { "notes.md" }

\* A work item file with the references refs and the activity log log.
ItemFileOf(refs, log) ==
  serializeWorkItem(
    [frontmatter |-> [id |-> T1, title |-> "Test item", status |-> "backlog",
                      updated |-> 0, artifacts |-> refs],
     body |-> << "a" >>,
     activity |-> log])

MalformedItemFile == [malformed |-> TRUE]

Ref(url) == [type |-> "plan", title |-> "Test artifact", url |-> url]

\* The header of a pipeline artifact completed at t; ap = "none" leaves the
\* approval out.
DocData(t, ap) ==
  LET d == [pipeline_stage |-> 2, pipeline_completed_at |-> t]
  IN  IF ap = "none" THEN d ELSE WithField(d, "approval", ap)

\* The artifact of kind k as a pipeline stage writes it: completed at 1,
\* the gates with the approval ap, gameplan.md with MaxMilestones headings,
\* progress.md with the markers mk.
StandardDoc(k, ap, mk) ==
  Content("yaml",
          DocData(1, IF k \in GATE_ARTIFACTS THEN ap ELSE "none"),
          IF k = "progress.md" THEN mk ELSE NoMarkers,
          IF k = "gameplan.md" THEN MaxMilestones ELSE 0)

AllDone(n) == [i \in 1..n |-> 1]

\* The store after the first n chain kinds were attached.
PrefixStore(n, ap, mk) ==
  [config |-> Config,
   items |-> OnlyItem(ItemFileOf([i \in 1..n |->
                                    Ref(Url(Namespace, T1, PIPELINE_CHAIN[i]))],
                                 << >>)),
   files |-> [f \in Filenames |->
                IF \E i \in 1..n : PIPELINE_CHAIN[i] = f
                THEN StandardDoc(f, ap, mk)
                ELSE NoFile]]

\* The marker sets of progress.md: every subset of the first markers, an
\* empty first or second marker, and as many markers as the loop looks at
\* and one more.
ProgressMarkers ==
  { [i \in D |-> 1] : D \in SUBSET (1..(MaxMilestones + 1)) }
    \cup { [i \in 1..2 |-> IF i = j THEN 0 ELSE 1] : j \in 1..2 }
    \cup { AllDone(MarkerLoopLimit), AllDone(MarkerLoopLimit + 1) }

\* Stores whose references and files disagree.  For each kind of MixKinds:
\* 0 nothing, 1 a reference without a file, 2 a file without a reference,
\* 3 both, 4 a file and a reference to another place with the same filename.
MixKinds == { "prd.md", "discovery-report.md" }

MixRefs(c) ==
  LET r(k) == IF c[k] \in { 1, 3 } THEN << Ref(Url(Namespace, T1, k)) >>
              ELSE IF c[k] = 4 THEN << Ref(<< "https:", "", "host", k >>) >>
              ELSE << >>
  IN  r("prd.md") \o r("discovery-report.md")

MixStore(c) ==
  [config |-> Config,
   items |-> OnlyItem(ItemFileOf(MixRefs(c), << >>)),
   files |-> [f \in Filenames |->
                IF f \in MixKinds /\ c[f] \in { 2, 3, 4 }
                THEN StandardDoc(f, "none", NoMarkers)
                ELSE NoFile]]

\* A store whose work item file has a header that does not parse.
MalformedStore ==
  [PrefixStore(3, "pending", NoMarkers) EXCEPT !.items[T1] = MalformedItemFile]

Verdicts == { "approved", "rejected", "approvd" }

Ids ==
  { T1, << "T", "-", "2" >>, << "N", "-", "1" >>, << "t", "-", "1" >>,
    << "T", "-" >> }

\* The calls of approveArtifact: every verdict on three artifacts of the
\* item, and two verdicts with every other id.
ApproveNames == { "prd.md", "architecture-proposal.md", "gameplan.md" }

ApproveCalls ==
  { [id |-> T1, input |-> [filename |-> f, verdict |-> v]] :
      f \in ApproveNames, v \in Verdicts }
    \cup { [id |-> id, input |-> [filename |-> "architecture-proposal.md",
                                  verdict |-> v]] :
             id \in Ids, v \in { "approved", "approvd" } }

\* The contents attachArtifact is called with: no header, a header that does
\* not parse, a later document without an approval, an approved document.
AttachContents ==
  { Content("none", EmptyData, NoMarkers, 0),
    Content("bad", EmptyData, NoMarkers, MaxMilestones),
    Content("yaml", DocData(MaxTime, "none"), AllDone(MaxMilestones), 1),
    Content("yaml", DocData(1, "approved"), NoMarkers, MaxMilestones) }

AttachNames == { "prd.md", "architecture-proposal.md", "progress.md" }

AttachInput(type, filename, content) ==
  [type |-> type, title |-> "Test artifact", filename |-> filename,
   content |-> content]

\* The calls of attachArtifact: every content under three filenames, and one
\* call with each id, with a file outside the chain, with another type and
\* title, with a type outside the schema, with an empty filename and with an
\* empty content.
AttachCalls ==
  { [id |-> T1, input |-> AttachInput("plan", f, c)] :
      f \in AttachNames, c \in AttachContents }
    \cup { [id |-> id,
            input |-> AttachInput("plan", "architecture-proposal.md",
                                  Content("none", EmptyData, NoMarkers, 0))] :
             id \in Ids }
    \cup { [id |-> T1, input |-> AttachInput("epic", "prd.md",
                                  Content("none", EmptyData, NoMarkers, 0))],
           [id |-> T1, input |-> AttachInput("plan", "",
                                  Content("none", EmptyData, NoMarkers, 0))],
           [id |-> T1, input |-> AttachInput("plan", "prd.md", EmptyString)],
           [id |-> T1, input |-> AttachInput("plan", "notes.md",
                                  Content("yaml", DocData(MaxTime, "none"),
                                          NoMarkers, 0))],
           [id |-> T1, input |-> [type |-> "adr", title |-> "Renamed",
                                  filename |-> "prd.md",
                                  content |-> Content("none", EmptyData, NoMarkers, 0)]] }

NoResult == [op |-> "none"]

\* The server processes that share the data directory.
Procs == 1..3

NoCalls == [p \in Procs |-> [pc |-> "idle"]]

NoItem == [id |-> << >>]

NoStates == [k \in {} |-> k]

EmptyStore == PrefixStore(0, "none", NoMarkers)

---------------------------------------------------------------------------
(* Specification *)

Init ==
  /\ stage = NotCalled
  /\ store = EmptyStore
  /\ result = NoResult
  /\ clock = 0
  /\ calls = NoCalls
  /\ \/ /\ item = TestItem(<< "a" >>)
        /\ \E c \in [ChainKinds -> 0..3], ap \in { "pending", "approved" } :
             artifacts = ScanSnapshot(c, ap)
     \/ /\ item = TestItem(<< "a" >>)
        /\ \E c \in [ChainKinds -> 0..MaxTime] : artifacts = TimeSnapshot(c)
     \/ /\ item = TestItem(<< "a" >>)
        /\ \E ex \in [ChainKinds -> BOOLEAN],
              ap \in [GATE_ARTIFACTS -> ApprovalValues \cup { "none" }],
              mc \in -1..MaxMilestones,
              cm \in -1..MaxMilestones :
             artifacts = WalkSnapshot(ex, ap, mc, cm)
     \/ /\ item = TestItem(<< "a" >>)
        /\ \E D \in SUBSET ChainKinds :
             \E ex \in [D -> BOOLEAN], ap \in { "none", "approved" } :
               artifacts = PartialSnapshot(D, ex, ap)
     \/ /\ \E b \in Bodies : item = TestItem(b)
        /\ \E c \in [ChainKinds -> 0..2] : artifacts = BodySnapshot(c)

\* A call of detectPipelineStage on the current inputs.
Detect ==
  /\ stage = NotCalled
  /\ stage' = detectPipelineStage(item, artifacts)
  /\ UNCHANGED << item, artifacts, store, result, clock, calls >>

Next == Detect

Spec == Init /\ [][Next]_vars

Called == stage /= NotCalled

---------------------------------------------------------------------------
(* Specification of the store *)

\* The stores the specification starts from: the pipeline at every length
\* with every approval of the gates, every marker set of progress.md, an
\* architecture proposal that approveArtifact approved or rejected, an
\* artifact attached without a header, stores whose references and files
\* disagree, and a malformed work item file.
InitialStores ==
  { PrefixStore(n, ap, AllDone(1)) :
      n \in 0..Len(PIPELINE_CHAIN), ap \in ApprovalValues \cup { "none" } }
    \cup { PrefixStore(6, "approved", mk) : mk \in ProgressMarkers }
    \cup { approveArtifact(PrefixStore(4, "pending", NoMarkers), T1,
                           [filename |-> "architecture-proposal.md", verdict |-> v],
                           0).store : v \in VALID_VERDICTS }
    \cup { attachArtifact(PrefixStore(2, "pending", NoMarkers), T1,
                          AttachInput("plan", f, Content("none", EmptyData, NoMarkers, 0)),
                          0).store : f \in { "prd.md", "architecture-proposal.md" } }
    \cup { MixStore(c) : c \in [MixKinds -> 0..4] }
    \cup { MalformedStore }

InitStore ==
  /\ store \in InitialStores
  /\ result = NoResult
  /\ clock = 0
  /\ calls = NoCalls
  /\ item = NoItem
  /\ artifacts = NoStates
  /\ stage = NotCalled

\* A call of attachArtifact.
Attach ==
  /\ clock < MaxClock
  /\ \E call \in AttachCalls :
       LET r == attachArtifact(store, call.id, call.input, clock + 1)
       IN  /\ store' = r.store
           /\ clock' = IF r.store = store THEN clock ELSE clock + 1
           /\ result' = [op |-> "attachArtifact", id |-> call.id,
                         input |-> call.input, code |-> r.code]
  /\ UNCHANGED << item, artifacts, stage, calls >>

\* A call of approveArtifact.
Approve ==
  /\ clock < MaxClock
  /\ \E call \in ApproveCalls :
       LET r == approveArtifact(store, call.id, call.input, clock + 1)
       IN  /\ store' = r.store
           /\ clock' = IF r.store = store THEN clock ELSE clock + 1
           /\ result' = [op |-> "approveArtifact", id |-> call.id,
                         input |-> call.input, code |-> r.code]
  /\ UNCHANGED << item, artifacts, stage, calls >>

\* An artifact file is deleted from outside the program.
DeleteFile ==
  /\ clock < MaxClock
  /\ \E f \in AttachNames :
       /\ store.files[f] /= NoFile
       /\ store' = [store EXCEPT !.files[f] = NoFile]
       /\ result' = [op |-> "deleteFile", filename |-> f, code |-> "none"]
  /\ clock' = clock + 1
  /\ UNCHANGED << item, artifacts, stage, calls >>

\* A call of workPromptHandler.
Work ==
  /\ \E id \in { T1, << "T", "-", "2" >> } :
       LET r == workPromptHandler(store, id)
       IN  /\ store' = r.store
           /\ result' = [op |-> "work", id |-> id, code |-> r.code]
           /\ IF r.code = "none"
              THEN /\ item' = r.item
                   /\ artifacts' = r.artifacts
                   /\ stage' = r.stage
              ELSE UNCHANGED << item, artifacts, stage >>
  /\ UNCHANGED << clock, calls >>

NextStore == Attach \/ Approve \/ DeleteFile \/ Work

SpecStore == InitStore /\ [][NextStore]_vars

---------------------------------------------------------------------------
(* Specification of the work items: createItem, updateItem, addComment *)

\* The number of writes of a behaviour.
MaxOps == 2

\* A body that holds the separator followed by what reads as a status
\* entry.
BodySplit ==
  << "a", "\n", ACTIVITY_SEPARATOR, "\n", "\n", StatusEntry("todo", "done", 0) >>

\* The inputs of createItem: the title alone, a status, a body (a word, a
\* word between whitespace, the body above), a status and a priority
\* outside the schema.
CreateInputs ==
  { [title |-> "A"],
    [title |-> "A", status |-> "todo", body |-> << "a" >>],
    [title |-> "A", body |-> << " ", "a", "\n" >>],
    [title |-> "A", body |-> BodySplit],
    [title |-> "A", status |-> "bogus"],
    [title |-> "A", priority |-> "bogus"] }

\* The changes of updateItem: statuses (one of them empty, one outside the
\* schema), other fields, bodies, a reference.
UpdateChanges ==
  { [status |-> st] : st \in { "backlog", "todo", "done", "", "bogus" } }
    \cup { [priority |-> "high"], [title |-> "B"], [priority |-> "bogus"],
           [status |-> "todo", priority |-> "high", assignee |-> "someone"],
           [body |-> << "a" >>], [body |-> BodySplit], [body |-> << >>],
           [addArtifacts |-> << Ref(<< "https:", "", "host", "doc" >>) >>] }

\* The ids updateItem and addComment are called with: two of the namespace,
\* one of no namespace, one that is no callsign.
UpdateIds == { T1, Callsign(Namespace, 2), << "N", "-", "1" >>, << "T", "-" >> }

NextOf(s, namespace) == s.config.namespaces[namespace].next

\* The store with no work item and the counter at n.
CounterStore(n) ==
  [config |-> [Config EXCEPT !.namespaces[Namespace].next = n],
   items |-> [id \in ItemIds |-> NoFile],
   files |-> [f \in Filenames |-> NoFile]]

\* The stores the specification starts from: no item, and T-1 created and
\* then updated twice or commented on.
InitialItemStores ==
  LET created == createItem(CounterStore(1), Namespace, [title |-> "A"], 0, 0).store
      moved == updateItem(created, T1, [status |-> "todo"], 0, 0).store
  IN  { CounterStore(1), created, moved,
        updateItem(moved, T1, [status |-> "in_progress"], 0, 0).store,
        addComment(created, T1, "bob", << "fine" >>, 0, 0).store }

InitItems ==
  /\ store \in InitialItemStores
  /\ result = NoResult
  /\ clock = 0
  /\ calls = NoCalls
  /\ item = NoItem
  /\ artifacts = NoStates
  /\ stage = NotCalled

\* A call of createItem.
Create ==
  /\ clock < MaxOps
  /\ store.config.namespaces[Namespace].next <= MaxItems
  /\ \E namespace \in { Namespace, << "N" >> }, input \in CreateInputs, fail \in 0..2 :
       LET r == createItem(store, namespace, input, clock + 1, fail)
       IN  /\ store' = r.store
           /\ clock' = IF r.store = store THEN clock ELSE clock + 1
           /\ result' = IF r.code = "none"
                         THEN [op |-> "createItem", namespace |-> namespace,
                               input |-> input, code |-> r.code,
                               callsign |-> r.callsign]
                         ELSE [op |-> "createItem", namespace |-> namespace,
                               input |-> input, code |-> r.code]
  /\ UNCHANGED << item, artifacts, stage, calls >>

\* A call of updateItem on one of ids with one of changeset, while fewer
\* than last writes were made.
UpdateOf(ids, changeset, last) ==
  /\ clock < last
  /\ \E id \in ids, changes \in changeset, fail \in 0..1 :
       LET r == updateItem(store, id, changes, clock + 1, fail)
       IN  /\ store' = r.store
           /\ clock' = IF r.store = store THEN clock ELSE clock + 1
           /\ result' = [op |-> "updateItem", id |-> id, changes |-> changes,
                         code |-> r.code]
  /\ UNCHANGED << item, artifacts, stage, calls >>

Update == UpdateOf(UpdateIds, UpdateChanges, MaxOps)

\* A call of addComment on one of ids, with a text between whitespace,
\* whitespace alone or nothing, while fewer than last writes were made.
CommentOf(ids, last) ==
  /\ clock < last
  /\ \E id \in ids,
        body \in { << " ", "fine", "\n" >>, << " " >>, << >> },
        fail \in 0..1 :
       LET r == addComment(store, id, "bob", body, clock + 1, fail)
       IN  /\ store' = r.store
           /\ clock' = IF r.store = store THEN clock ELSE clock + 1
           /\ result' = [op |-> "addComment", id |-> id, body |-> body,
                         code |-> r.code]
  /\ UNCHANGED << item, artifacts, stage, calls >>

Comment == CommentOf(UpdateIds, MaxOps)

NextItems == Create \/ Update \/ Comment

SpecItems == InitItems /\ [][NextItems]_vars

---------------------------------------------------------------------------
(* Specification of the operations on an item whose pipeline is stale *)

\* The pipeline of n artifacts with the kinds of later completed after the
\* others.
StaleStore(n, later) ==
  LET s == PrefixStore(n, "approved", AllDone(1))
  IN  [s EXCEPT !.files =
         [f \in Filenames |->
            IF f \in later /\ s.files[f] /= NoFile
            THEN Content("yaml", DocData(MaxTime, IF f \in GATE_ARTIFACTS
                                                  THEN "approved" ELSE "none"),
                         NoMarkers, 0)
            ELSE s.files[f]]]

\* The stores the specification starts from: one stale pair at the start,
\* in the middle and at the end of the chain, two stale pairs, and a
\* pipeline that is not stale.
InitStale ==
  /\ store \in { StaleStore(3, { "prd.md" }),
                 StaleStore(5, { "architecture-proposal.md" }),
                 StaleStore(8, { "progress.md" }),
                 StaleStore(6, { "prd.md", "architecture-proposal.md" }),
                 StaleStore(4, { }) }
  /\ result = NoResult
  /\ clock = 0
  /\ calls = NoCalls
  /\ item = NoItem
  /\ artifacts = NoStates
  /\ stage = NotCalled

\* The operations: attachArtifact, approveArtifact, the removal of a file,
\* updateItem of metadata and of the body, addComment.
NextStale ==
  \/ Attach
  \/ Approve
  \/ DeleteFile
  \/ UpdateOf({ T1 },
              { [status |-> "todo"], [priority |-> "high", assignee |-> "someone"],
                [body |-> << >>], [body |-> << " " >>], [body |-> << "b" >>],
                [status |-> "done", body |-> << >>],
                [addArtifacts |-> << Ref(<< "https:", "", "host", "doc" >>) >>] },
              MaxClock)
  \/ CommentOf({ T1 }, MaxClock)

SpecStale == InitStale /\ [][NextStale]_vars

---------------------------------------------------------------------------
(* Vocabulary of the properties, read off the inputs of the call *)

\* The body is absent, empty or made of whitespace only.
Blank(it) ==
  ~HasField(it, "body") \/ \A i \in 1..Len(it.body) : it.body[i] = " "

Present(k) == k \in DOMAIN artifacts /\ artifacts[k].exists

Stamped(k) == Present(k) /\ "completedAt" \in DOMAIN artifacts[k]

\* Pair i of the chain: kinds i and i+1 both exist, both carry a completedAt
\* and the upstream one is later.
StaleAt(i) ==
  /\ Stamped(PIPELINE_CHAIN[i])
  /\ Stamped(PIPELINE_CHAIN[i + 1])
  /\ artifacts[PIPELINE_CHAIN[i]].completedAt
       > artifacts[PIPELINE_CHAIN[i + 1]].completedAt

Pairs == 1..(Len(PIPELINE_CHAIN) - 1)

AnyStale == \E i \in Pairs : StaleAt(i)

Approved(k) ==
  /\ Present(k)
  /\ "approval" \in DOMAIN artifacts[k]
  /\ artifacts[k].approval = "approved"

Simple(t) == [type |-> t]

Stale(downstream, upstream) ==
  [type |-> "stale", artifact |-> downstream, upstream |-> upstream]

Implementation(m, n) ==
  [type |-> "implementation", milestone |-> m, totalMilestones |-> n]

\* Index of the first chain kind that does not exist, 0 when all exist.
FirstMissing ==
  IF \A i \in 1..Len(PIPELINE_CHAIN) : Present(PIPELINE_CHAIN[i]) THEN 0
  ELSE CHOOSE i \in 1..Len(PIPELINE_CHAIN) :
         /\ ~Present(PIPELINE_CHAIN[i])
         /\ \A j \in 1..(i - 1) : Present(PIPELINE_CHAIN[j])

\* The stage type that asks for the artifact at chain index i.
GenerateType(i) ==
  << "prd", "discovery", "architecture", "gameplan", "test_generation",
     "implementation", "review", "qa_plan" >>[i]

---------------------------------------------------------------------------
(* C1 *)

\* C1: for every item whose body is absent, empty or whitespace-only, and
\* for every artifact snapshot, detectPipelineStage returns needs_body.
C1_NeedsBody == Called /\ Blank(item) => stage = Simple("needs_body")

\* A whitespace-only body with all 8 artifacts present, a stale pair and
\* pending gates.
C1_Witness ==
  /\ Called
  /\ HasField(item, "body") /\ item.body = << " ", " " >>
  /\ FirstMissing = 0
  /\ AnyStale
  /\ ~Approved("architecture-proposal.md")
  /\ stage = Simple("needs_body")

---------------------------------------------------------------------------
(* C2 *)

\* C2: for every item with a non-blank body, if k is the lowest chain index
\* whose pair (k, k+1) is stale, detectPipelineStage returns
\* stale(chain[k+1], chain[k]), whatever kinds are missing, whatever the
\* gate approvals are and whatever later pairs are stale too.
C2_FirstStalePair ==
  Called /\ ~Blank(item) =>
    \A k \in Pairs :
      StaleAt(k) /\ (\A j \in 1..(k - 1) : ~StaleAt(j)) =>
        stage = Stale(PIPELINE_CHAIN[k + 1], PIPELINE_CHAIN[k])

\* prd.md is missing, pairs 2 and 4 are stale, the gates are pending, and
\* the call reports pair 2.
C2_Witness ==
  /\ Called
  /\ ~Blank(item)
  /\ ~Present("prd.md")
  /\ StaleAt(2) /\ StaleAt(4)
  /\ ~Approved("architecture-proposal.md")
  /\ ~Present("qa-plan.md")
  /\ stage = Stale("architecture-proposal.md", "discovery-report.md")

---------------------------------------------------------------------------
(* C3 *)

\* No pair that lies wholly before chain index m is stale.
NoStaleBefore(m) == \A j \in Pairs : j + 1 < m => ~StaleAt(j)

GatesApprovedBefore(m) ==
  \A i \in 1..(m - 1) :
    PIPELINE_CHAIN[i] \in GATE_ARTIFACTS => Approved(PIPELINE_CHAIN[i])

\* Both milestone counters are known.
CountersKnown ==
  /\ Present("gameplan.md")
  /\ "milestoneCount" \in DOMAIN artifacts["gameplan.md"]
  /\ "progress.md" \in DOMAIN artifacts
  /\ "completedMilestones" \in DOMAIN artifacts["progress.md"]

\* Both counters are known and show a milestone still to do.
MilestonesRemain ==
  /\ CountersKnown
  /\ artifacts["progress.md"].completedMilestones
       < artifacts["gameplan.md"].milestoneCount

---------------------------------------------------------------------------
(* C4 *)

PastArchitecture ==
  { "gameplan", "gameplan_review", "test_generation", "implementation",
    "review", "qa_plan", "complete" }

PastGameplan ==
  { "test_generation", "implementation", "review", "qa_plan", "complete" }

\* C4: the pipeline never advances past an unapproved gate: a stage past the
\* architecture gate is returned only if architecture-proposal.md exists with
\* approval 'approved', and a stage past the gameplan gate only if gameplan.md
\* also exists with approval 'approved'.
C4_NeverPastUnapprovedGate ==
  Called =>
    /\ stage.type \in PastArchitecture => Approved("architecture-proposal.md")
    /\ stage.type \in PastGameplan => Approved("gameplan.md")

\* A call that returned test_generation, both gates being approved.
C4_Witness ==
  /\ Called
  /\ stage = Simple("test_generation")
  /\ Approved("architecture-proposal.md")
  /\ Approved("gameplan.md")

---------------------------------------------------------------------------
(* C5 *)

\* The snapshot arts with the approval of kind g set to v, or removed when
\* v is "none"; nothing else differs.
SetApproval(arts, g, v) ==
  LET rest == [f \in DOMAIN arts[g] \ { "approval" } |-> arts[g][f]]
  IN  [arts EXCEPT ![g] = IF v = "none" THEN rest ELSE WithField(rest, "approval", v)]

Unapproved == { "rejected", "pending", "none" }

\* The approval of gate g is rejected, pending or absent.
GateOpen(g) ==
  /\ g \in DOMAIN artifacts
  /\ "approval" \in DOMAIN artifacts[g] => artifacts[g].approval \in Unapproved

\* Chain index of kind k.
IndexOf(k) == CHOOSE i \in 1..Len(PIPELINE_CHAIN) : PIPELINE_CHAIN[i] = k

\* The chain walk reaches gate g: the body is not blank, no pair is stale,
\* every earlier kind exists, the earlier gate is approved, and g exists.
WalkReaches(g) ==
  /\ ~Blank(item)
  /\ ~AnyStale
  /\ \A i \in 1..IndexOf(g) : Present(PIPELINE_CHAIN[i])
  /\ GatesApprovedBefore(IndexOf(g))

ReviewStage(g) ==
  IF g = "architecture-proposal.md" THEN Simple("architecture_review")
  ELSE Simple("gameplan_review")

\* C5: for each gate and any two snapshots that differ only in that gate's
\* approval, both values taken from rejected, pending and absent,
\* detectPipelineStage returns the identical stage; and when the chain walk
\* reaches that gate, the stage is the gate's review stage.
C5_GateEquivalence ==
  Called =>
    \A g \in GATE_ARTIFACTS :
      GateOpen(g) =>
        /\ \A v \in Unapproved :
             detectPipelineStage(item, SetApproval(artifacts, g, v)) = stage
        /\ WalkReaches(g) => stage = ReviewStage(g)

\* The walk reaches gameplan.md, whose approval is rejected, and the call
\* returned gameplan_review.
C5_Witness ==
  /\ Called
  /\ WalkReaches("gameplan.md")
  /\ "approval" \in DOMAIN artifacts["gameplan.md"]
  /\ artifacts["gameplan.md"].approval = "rejected"
  /\ stage = Simple("gameplan_review")

---------------------------------------------------------------------------
(* C6 *)

\* The walk is past test generation: the body is not blank, no pair is
\* stale, prd, discovery, architecture (approved), gameplan (approved) and
\* test-coverage-matrix exist.
PastTestGeneration ==
  /\ ~Blank(item)
  /\ ~AnyStale
  /\ \A i \in 1..5 : Present(PIPELINE_CHAIN[i])
  /\ Approved("architecture-proposal.md")
  /\ Approved("gameplan.md")

\* C6: past test generation, if milestoneCount = n and completedMilestones = c
\* are both known with c < n, detectPipelineStage returns
\* implementation(c + 1, n), whether or not review-report.md or qa-plan.md
\* exist.
C6_MilestoneProgression ==
  Called /\ PastTestGeneration /\ MilestonesRemain =>
    stage = Implementation(artifacts["progress.md"].completedMilestones + 1,
                           artifacts["gameplan.md"].milestoneCount)

\* One of two milestones is done, review-report.md and qa-plan.md already
\* exist, and the call returned implementation(2, 2).
C6_Witness ==
  /\ Called
  /\ PastTestGeneration
  /\ CountersKnown
  /\ artifacts["progress.md"].completedMilestones = 1
  /\ artifacts["gameplan.md"].milestoneCount = 2
  /\ Present("review-report.md")
  /\ Present("qa-plan.md")
  /\ stage = Implementation(2, 2)

---------------------------------------------------------------------------
(* C7 *)

SimpleTypes ==
  { "needs_body", "prd", "discovery", "architecture", "gameplan",
    "test_generation", "review", "qa_plan", "architecture_review",
    "gameplan_review", "complete" }

\* s is one of the 13 variants of PipelineStage (detect-stage.ts:32-45).
IsPipelineStage(s) ==
  \/ DOMAIN s = { "type" } /\ s.type \in SimpleTypes
  \/ /\ DOMAIN s = { "type", "artifact", "upstream" }
     /\ s.type = "stale"
     /\ s.artifact \in ChainKinds
     /\ s.upstream \in ChainKinds
  \/ /\ DOMAIN s = { "type", "milestone", "totalMilestones" }
     /\ s.type = "implementation"
     /\ s.milestone \in Int
     /\ s.totalMilestones \in Int

\* C7: for every work item and every artifact map, maps that lack entries
\* and entries with any combination of optional fields included,
\* detectPipelineStage returns without throwing, and the result is one of
\* the 13 PipelineStage variants.
C7_Totality == Called => IsPipelineStage(stage)

\* A map with no entry for architecture-proposal.md, prd.md and
\* discovery-report.md existing: the call returned architecture.
C7_Witness ==
  /\ Called
  /\ "architecture-proposal.md" \notin DOMAIN artifacts
  /\ Present("prd.md")
  /\ Present("discovery-report.md")
  /\ stage = Simple("architecture")

---------------------------------------------------------------------------
(* C8 *)

OtherRefs ==
  << [type |-> "prd", title |-> "PRD", url |-> "TEST-2/prd.md"] >>

\* Items that differ from the item of the call in id, status and
\* artifact-reference list, with bodies that are blank or not as asked.
OtherItems(blank) ==
  IF blank
  THEN { MakeItem("TEST-2", "done", OtherRefs, << "absent" >>),
         MakeItem("TEST-2", "done", << >>, << >>),
         MakeItem("TEST-3", "backlog", OtherRefs, << " " >>) }
  ELSE { MakeItem("TEST-2", "done", OtherRefs, << "a" >>),
         MakeItem("TEST-2", "done", << >>, << " ", "a" >>),
         MakeItem("TEST-3", "backlog", OtherRefs, << "a", " " >>) }

\* C8: two calls whose items agree on whether the body is blank and whose
\* snapshots are equal return the identical stage, whatever the items' id,
\* status or artifact-reference list.
C8_Determinism ==
  Called =>
    \A other \in OtherItems(Blank(item)) :
      detectPipelineStage(other, artifacts) = stage

\* A call that returned stale for a body with trailing whitespace; an item
\* with another id, status, reference list and body gets the same stage.
C8_Witness ==
  /\ Called
  /\ HasField(item, "body") /\ item.body = << "a", " " >>
  /\ stage.type = "stale"
  /\ detectPipelineStage(MakeItem("TEST-2", "done", OtherRefs, << "a" >>),
                         artifacts) = stage

---------------------------------------------------------------------------
(* C9 *)

\* Both counters are known and no milestone is left.
MilestonesDone ==
  /\ CountersKnown
  /\ artifacts["progress.md"].completedMilestones
       >= artifacts["gameplan.md"].milestoneCount

\* C9: past test generation, when both milestone counters are known with
\* completedMilestones >= milestoneCount, or a counter is unknown and
\* review-report.md exists, detectPipelineStage returns review if
\* review-report.md is missing, else qa_plan if qa-plan.md is missing, else
\* complete.
C9_PostImplementation ==
  Called /\ PastTestGeneration
    /\ (MilestonesDone \/ (~CountersKnown /\ Present("review-report.md"))) =>
      stage = IF ~Present("review-report.md") THEN Simple("review")
              ELSE IF ~Present("qa-plan.md") THEN Simple("qa_plan")
              ELSE Simple("complete")

\* A gameplan with no milestone (milestoneCount = 0 = completedMilestones),
\* review-report.md and qa-plan.md missing: the call returned review.
C9_Witness ==
  /\ Called
  /\ PastTestGeneration
  /\ CountersKnown
  /\ artifacts["gameplan.md"].milestoneCount = 0
  /\ ~Present("review-report.md")
  /\ ~Present("qa-plan.md")
  /\ stage = Simple("review")

---------------------------------------------------------------------------
(* C10 *)

\* C10: past test generation, if milestoneCount or completedMilestones is
\* unknown and review-report.md does not exist, detectPipelineStage returns
\* implementation(1, milestoneCount if known, else 1).
C10_DefaultImplementation ==
  Called /\ PastTestGeneration /\ ~CountersKnown /\ ~Present("review-report.md") =>
    stage = Implementation(1,
              IF "milestoneCount" \in DOMAIN artifacts["gameplan.md"]
              THEN artifacts["gameplan.md"].milestoneCount
              ELSE 1)

\* milestoneCount = 2 is known, completedMilestones is not, review-report.md
\* is missing: the call returned implementation(1, 2).
C10_Witness ==
  /\ Called
  /\ PastTestGeneration
  /\ "milestoneCount" \in DOMAIN artifacts["gameplan.md"]
  /\ artifacts["gameplan.md"].milestoneCount = 2
  /\ ~CountersKnown
  /\ ~Present("review-report.md")
  /\ stage = Implementation(1, 2)

---------------------------------------------------------------------------
(* C11 *)

\* C11: whenever detectPipelineStage returns implementation(milestone,
\* totalMilestones), on a snapshot whose milestoneCount and
\* completedMilestones are each unknown or a non-negative integer,
\* milestone >= 1, totalMilestones >= 1 and milestone <= totalMilestones.
C11_ImplementationBounds ==
  Called /\ stage.type = "implementation" =>
    /\ stage.milestone >= 1
    /\ stage.totalMilestones >= 1
    /\ stage.milestone <= stage.totalMilestones

\* milestoneCount = 0 is known, completedMilestones is not, review-report.md
\* is missing: the call returned implementation(1, 0).
C11_Witness ==
  /\ Called
  /\ "milestoneCount" \in DOMAIN artifacts["gameplan.md"]
  /\ artifacts["gameplan.md"].milestoneCount = 0
  /\ ~CountersKnown
  /\ stage = Implementation(1, 0)

---------------------------------------------------------------------------
(* C12 *)

\* Pair i is skipped by the scan: an artifact or a completedAt is missing,
\* or the two timestamps are equal.
SkippedAt(i) ==
  \/ ~Stamped(PIPELINE_CHAIN[i])
  \/ ~Stamped(PIPELINE_CHAIN[i + 1])
  \/ artifacts[PIPELINE_CHAIN[i]].completedAt
       = artifacts[PIPELINE_CHAIN[i + 1]].completedAt

\* C12: detectPipelineStage returns stale only for an adjacent pair whose
\* two artifacts exist, both carry a completedAt, and the upstream one is
\* strictly later; a pair with a missing artifact, a missing completedAt or
\* equal timestamps is never the one reported, and with such pairs in front
\* of it a stale pair is still reported.
C12_StaleOnlyStrictlyLater ==
  Called =>
    /\ stage.type = "stale" =>
         \E i \in Pairs :
           /\ StaleAt(i)
           /\ ~SkippedAt(i)
           /\ stage = Stale(PIPELINE_CHAIN[i + 1], PIPELINE_CHAIN[i])
    /\ \A i \in Pairs :
         SkippedAt(i) => stage /= Stale(PIPELINE_CHAIN[i + 1], PIPELINE_CHAIN[i])
    /\ ~Blank(item) /\ AnyStale => stage.type = "stale"

\* Pair 1 has equal timestamps, pair 2 and 3 lack a completedAt on one side,
\* pair 5 lacks an artifact, pair 4 is stale and is the one reported.
C12_Witness ==
  /\ Called
  /\ Stamped("prd.md") /\ Stamped("discovery-report.md")
  /\ artifacts["prd.md"].completedAt = artifacts["discovery-report.md"].completedAt
  /\ Present("architecture-proposal.md") /\ ~Stamped("architecture-proposal.md")
  /\ ~Present("progress.md")
  /\ StaleAt(4)
  /\ stage = Stale("test-coverage-matrix.md", "gameplan.md")

---------------------------------------------------------------------------
(* Vocabulary of the properties of the store *)

\* The entries of an activity log: its pieces that are not whitespace.
Entries(log) == SelectSeq(log, LAMBDA piece : ~IsWhitespace(piece))

\* The last call was a workPromptHandler call that returned: item, artifacts
\* and stage are what it computed on the store as it is.
WorkDone == result.op = "work" /\ result.code = "none"

\* The work item file lists a reference whose last path segment is k.
ReferencedKind(k) ==
  /\ ~store.items[T1].malformed
  /\ \E i \in 1..Len(store.items[T1].frontmatter.artifacts) :
       LET url == store.items[T1].frontmatter.artifacts[i].url
       IN  url[Len(url)] = k

\* The artifact directory of the item holds a file named k.
OnDisk(k) == store.files[k] /= NoFile

---------------------------------------------------------------------------
(* C13 *)

\* C13: buildArtifactStates returns a map with an entry for each of the 8
\* chain kinds, and the entry of a kind has exists = true exactly when the
\* item's reference list holds a reference with that filename and the file
\* can be fetched; a referenced kind without a file and a file without a
\* reference are both recorded with exists = false.
C13_CompleteMap ==
  WorkDone =>
    /\ DOMAIN artifacts = ChainKinds
    /\ \A k \in ChainKinds :
         /\ artifacts[k].filename = k
         /\ artifacts[k].exists <=> (ReferencedKind(k) /\ OnDisk(k))

\* prd.md is on disk without a reference, discovery-report.md is referenced
\* without a file, and the map built records both as not existing.
C13_Witness ==
  /\ WorkDone
  /\ OnDisk("prd.md") /\ ~ReferencedKind("prd.md")
  /\ ReferencedKind("discovery-report.md") /\ ~OnDisk("discovery-report.md")
  /\ ~artifacts["prd.md"].exists
  /\ ~artifacts["discovery-report.md"].exists

---------------------------------------------------------------------------
(* C14 *)

\* Kind k is referenced, its file can be fetched, and the content has no
\* header or one that does not parse.
HeaderUnreadable(k) ==
  /\ ReferencedKind(k)
  /\ OnDisk(k)
  /\ store.files[k].header \in { "none", "bad" }

\* C14: a referenced chain artifact whose content can be fetched but whose
\* header is missing or unparsable is recorded as exists = true with
\* completedAt, approval, milestoneCount and completedMilestones all absent.
C14_ExistsWithoutMetadata ==
  WorkDone =>
    \A k \in ChainKinds :
      HeaderUnreadable(k) => artifacts[k] = ArtifactState(k, TRUE)

\* progress.md has a header that does not parse, review-report.md exists,
\* and the map records completedMilestones = 0, so that the call returns
\* implementation(1, milestoneCount).
C14_Witness ==
  /\ WorkDone
  /\ HeaderUnreadable("progress.md")
  /\ store.files["progress.md"].header = "bad"
  /\ artifacts["progress.md"].exists
  /\ "completedMilestones" \in DOMAIN artifacts["progress.md"]
  /\ artifacts["progress.md"].completedMilestones = 0
  /\ artifacts["review-report.md"].exists
  /\ stage = Implementation(1, MaxMilestones)

---------------------------------------------------------------------------
(* C15 *)

\* The markers of the header of progress.md, none when it has no header or
\* one that does not parse.
ProgressMarkersOnDisk ==
  IF store.files["progress.md"].header = "yaml"
  THEN store.files["progress.md"].markers
  ELSE NoMarkers

\* The largest k such that the indices 1..k all satisfy Counts.
PrefixLength(Counts(_), limit) ==
  CHOOSE k \in 0..limit :
    /\ \A i \in 1..k : Counts(i)
    /\ k < limit => ~Counts(k + 1)

MarkerPresent(i) == i \in DOMAIN ProgressMarkersOnDisk

MarkerSet(i) == MarkerPresent(i) /\ ProgressMarkersOnDisk[i] /= 0

\* More than any header of the model holds.
MarkerHorizon == MarkerLoopLimit + 2

\* C15 as stated: completedMilestones is the largest k such that the
\* markers 1..k are all present.
C15_MaximalPrefixAsStated ==
  WorkDone /\ artifacts["progress.md"].exists =>
    artifacts["progress.md"].completedMilestones
      = PrefixLength(MarkerPresent, MarkerHorizon)

\* C15 amended: completedMilestones is the largest k, up to the 100 markers
\* the loop looks at, such that the markers 1..k are all present with a
\* value; markers after the first gap are not counted.
C15_MaximalPrefixAmended ==
  WorkDone /\ artifacts["progress.md"].exists =>
    artifacts["progress.md"].completedMilestones
      = PrefixLength(MarkerSet, MarkerLoopLimit)

\* Markers 1 and 3 are set and marker 2 is missing: one milestone counted.
C15_Witness ==
  /\ WorkDone
  /\ artifacts["progress.md"].exists
  /\ MarkerSet(1) /\ ~MarkerPresent(2) /\ MarkerSet(3)
  /\ artifacts["progress.md"].completedMilestones = 1

---------------------------------------------------------------------------
(* C16 *)

\* C16: a workPromptHandler call leaves the work item file, every artifact
\* file and the config unchanged, hands detectPipelineStage the item and the
\* map it built and has them unchanged afterwards, and a further call on the
\* store it leaves returns the same stage.
C16_WorkIsReadOnly ==
  [][ result'.op = "work" =>
        /\ store' = store
        /\ clock' = clock
        /\ result'.code = "none" =>
             /\ item' = getItem(store, result'.id)
             /\ artifacts' = buildArtifactStates(store, item')
             /\ stage' = detectPipelineStage(item', artifacts')
             /\ stage' = workPromptHandler(store', result'.id).stage ]_vars

\* A call made after an approval wrote to the store: it returned
\* architecture as the stage and the approval is still the last write.
C16_Witness ==
  /\ WorkDone
  /\ clock = 1
  /\ OnDisk("discovery-report.md")
  /\ stage = Simple("architecture")
  /\ store.items[T1].frontmatter.updated = 1

---------------------------------------------------------------------------
(* C17 *)

NonGateKinds == ChainKinds \ GATE_ARTIFACTS

\* The stage a workPromptHandler call returns on store s.
StageOf(s) == workPromptHandler(s, T1).stage

\* C17: the stage detectPipelineStage returns does not change when the
\* approval of a kind other than the two gates is set to any value;
\* buildArtifactStates gives no approval to those kinds; and a successful
\* approveArtifact on such an artifact leaves the stage workPromptHandler
\* reports as it was.
C17_NonGateApprovalIgnored ==
  [][ /\ result'.op = "work" /\ result'.code = "none" =>
          \A k \in NonGateKinds :
            /\ "approval" \notin DOMAIN artifacts'[k]
            /\ \A v \in ApprovalValues :
                 detectPipelineStage(item', SetApproval(artifacts', k, v)) = stage'
      /\ ( /\ result'.op = "approveArtifact"
           /\ result'.code = "none"
           /\ result'.input.filename \in NonGateKinds ) =>
          /\ StageOf(store') = StageOf(store)
          /\ store'.files[result'.input.filename].data.approval
               = result'.input.verdict ]_vars

\* prd.md was approved with the pipeline waiting for the review of the
\* architecture proposal.
C17_Witness ==
  /\ result.op = "approveArtifact"
  /\ result.code = "none"
  /\ result.input = [filename |-> "prd.md", verdict |-> "approved"]
  /\ store.files["prd.md"].data.approval = "approved"
  /\ StageOf(store) = Simple("architecture_review")

---------------------------------------------------------------------------
(* C18: what a successful approveArtifact writes *)

\* The header fields approveArtifact assigns or deletes.
VerdictFields == { "approval", "pipeline_approved_at" }

\* The header fields of c other than the ones of the verdict.
OtherFields(c) == [g \in DOMAIN c.data \ VerdictFields |-> c.data[g]]

\* What buildArtifactStates records of the store s for the item T1.
Recorded(s) == buildArtifactStates(s, getItem(s, T1))

\* The recorded states without their approval: what is left is what the
\* staleness comparisons and the milestone arithmetic read.
WithoutApproval(arts) == [k \in DOMAIN arts |-> WithoutField(arts[k], "approval")]

---------------------------------------------------------------------------
(* C19: a failing approveArtifact *)

\* The codes the causes of failure present in the call (id, input) on the
\* store s are said to raise.
FailureCodes(s, id, input) ==
  LET cs == parseCallsign(id)
  IN  ( IF IsError(cs) THEN { "VALIDATION_ERROR" } ELSE { } )
        \cup ( IF ~IsError(cs) /\ cs.namespace \notin DOMAIN s.config.namespaces
               THEN { "NAMESPACE_NOT_FOUND", "NOT_FOUND" } ELSE { } )
        \cup ( IF input.verdict \notin VALID_VERDICTS
               THEN { "VALIDATION_ERROR" } ELSE { } )
        \cup ( IF ItemFile(s, id) = NoFile \/ ArtifactFile(s, id, input.filename) = NoFile
               THEN { "NOT_FOUND" } ELSE { } )

\* C19: an approveArtifact that fails leaves the store as it was (neither
\* the artifact file nor the work item file is modified), and when the
\* callsign is malformed, the namespace unknown, the verdict invalid, or the
\* item or the artifact missing, it fails with a code of one of these causes.
C19_FailingApprovalLeavesStore ==
  [][ ( result'.op = "approveArtifact" /\ result'.code /= "none" ) =>
        /\ store' = store
        /\ FailureCodes(store, result'.id, result'.input) /= { } =>
             result'.code \in FailureCodes(store, result'.id, result'.input) ]_vars

\* An approveArtifact that failed on a work item file whose header does not
\* parse, after it rewrote the artifact with the verdict.
C19_Witness ==
  /\ result.op = "approveArtifact"
  /\ result.code = YAMLException.error
  /\ result.input = [filename |-> "architecture-proposal.md", verdict |-> "approved"]
  /\ store.items[T1] = MalformedItemFile
  /\ store.files["architecture-proposal.md"].data.approval = "approved"
  /\ HasField(store.files["architecture-proposal.md"].data, "pipeline_approved_at")
  /\ clock = 1

---------------------------------------------------------------------------
(* C20: the approval of a gate after attachArtifact and approveArtifact *)

\* The approval the header of the content c carries, "pending" when it
\* carries none.
HeaderApproval(c) ==
  IF c.header = "yaml" /\ HasField(c.data, "approval") THEN c.data.approval
  ELSE "pending"

Succeeded(r, op, g) ==
  r.op = op /\ r.code = "none" /\ r.id = T1 /\ r.input.filename = g

---------------------------------------------------------------------------
(* Specification of serializeWorkItem followed by parseWorkItem *)

\* The highest number of pieces of a body and of an activity log.
MaxTextLen == 3

\* The texts of at most MaxTextLen pieces: whitespace, a word, the separator.
Texts ==
  UNION { [1..n -> Whitespace \cup { "a", ACTIVITY_SEPARATOR }] : n \in 0..MaxTextLen }

InitParse ==
  /\ \E body \in Texts, activity \in Texts :
       item = [frontmatter |-> [id |-> T1, title |-> "A"],
               body |-> body, activity |-> activity]
  /\ result = NoResult
  /\ store = EmptyStore
  /\ clock = 0
  /\ calls = NoCalls
  /\ artifacts = NoStates
  /\ stage = NotCalled

\* The item is written by serializeWorkItem and read by parseWorkItem.
RoundTrip ==
  /\ result = NoResult
  /\ LET parsed == parseWorkItem(serializeWorkItem(item))
     IN  result' = [op |-> "roundTrip", body |-> parsed.body,
                    activity |-> parsed.activity]
  /\ UNCHANGED << item, store, clock, calls, artifacts, stage >>

NextParse == RoundTrip

SpecParse == InitParse /\ [][NextParse]_vars

---------------------------------------------------------------------------
(* Specification of createItem calls made by several server processes *)

InitRace ==
  /\ store \in { CounterStore(1), CounterStore(2) }
  /\ calls = NoCalls
  /\ result = NoResult
  /\ clock = 0
  /\ item = NoItem
  /\ artifacts = NoStates
  /\ stage = NotCalled

\* filesystem.ts:192-206: process p reads the configuration, checks the
\* namespace and the input and takes the counter.
ReadConfig(p) ==
  /\ calls[p].pc = "idle"
  /\ NextOf(store, Namespace) <= MaxItems
  /\ \E namespace \in { Namespace, << "N" >> },
        input \in { [title |-> "A"], [title |-> "B"],
                    [title |-> "A", status |-> "bogus"] } :
       LET config == store.config
           status == IF Given(input, "status") THEN input.status ELSE "backlog"
       IN  calls' =
             [calls EXCEPT ![p] =
                IF namespace \notin DOMAIN config.namespaces
                THEN [pc |-> "thrown", code |-> NamespaceNotFoundError.error]
                ELSE IF ~validateStatus(status)
                THEN [pc |-> "thrown", code |-> ValidationError.error]
                ELSE [pc |-> "read", namespace |-> namespace, input |-> input,
                      num |-> config.namespaces[namespace].next,
                      config |-> [config EXCEPT !.namespaces[namespace].next = @ + 1]]]
  /\ UNCHANGED << store, result, clock, item, artifacts, stage >>

\* filesystem.ts:241: process p writes its configuration.
WriteConfig(p) ==
  /\ calls[p].pc = "read"
  /\ store' = [store EXCEPT !.config = calls[p].config]
  /\ calls' = [calls EXCEPT ![p].pc = "counted"]
  /\ UNCHANGED << result, clock, item, artifacts, stage >>

\* filesystem.ts:243-246: process p writes the item file and returns the
\* callsign.
WriteItem(p) ==
  /\ calls[p].pc = "counted"
  /\ LET callsign == Callsign(calls[p].namespace, calls[p].num)
     IN  /\ store' =
               [store EXCEPT !.items[callsign] =
                  serializeWorkItem(
                    [frontmatter |-> NewFrontmatter(callsign, calls[p].input,
                                                    "backlog", clock),
                     body |-> << >>, activity |-> << >>])]
         /\ calls' = [calls EXCEPT ![p] = [pc |-> "returned", callsign |-> callsign,
                                           input |-> calls[p].input]]
  /\ UNCHANGED << result, clock, item, artifacts, stage >>

NextRace == \E p \in Procs : ReadConfig(p) \/ WriteConfig(p) \/ WriteItem(p)

SpecRace == InitRace /\ [][NextRace]_vars

---------------------------------------------------------------------------
(* C21: the status transition log *)

\* The entries of the log of a work item, as the next read of its file
\* returns them.
LogOf(s, id) ==
  IF ItemFile(s, id) = NoFile \/ ItemFile(s, id).malformed THEN << >>
  ELSE Entries(parseWorkItem(ItemFile(s, id)).activity)

StatusOf(s, id) == parseWorkItem(ItemFile(s, id)).frontmatter.status

Statuses == DEFAULT_SCHEMA.status \cup { "", "bogus" }

\* Every entry that reads 'Status changed: {old} -> {new}'.
StatusEntries ==
  { StatusEntry(old, new, t) : old \in Statuses, new \in Statuses, t \in 0..MaxOps }

StatusChanges(s, id) == SelectSeq(LogOf(s, id), LAMBDA e : e \in StatusEntries)

\* The step is a successful updateItem of id whose status differs from the
\* one the item had.
Transition(id) ==
  /\ result'.op = "updateItem"
  /\ result'.code = "none"
  /\ result'.id = id
  /\ HasField(result'.changes, "status")
  /\ result'.changes.status /= StatusOf(store, id)

\* C21 as stated: the log of every work item gains one 'Status changed'
\* entry, naming the status before and the status after, on every
\* successful updateItem whose status differs from the current one, and
\* none on any other step (createItem, an update to the same status, an
\* update of other fields or of the body, addComment).
C21_StatusLogAsStated ==
  [][\A id \in ItemIds :
       StatusChanges(store', id) =
         IF Transition(id)
         THEN Append(StatusChanges(store, id),
                     StatusEntry(StatusOf(store, id), result'.changes.status, clock'))
         ELSE StatusChanges(store, id)]_vars

\* A createItem has returned and the log of the item it created holds a
\* status entry.
C21_Witness ==
  /\ result.op = "createItem"
  /\ result.code = "none"
  /\ StatusChanges(store, result.callsign) /= << >>

---------------------------------------------------------------------------
(* C22: callsign generation *)

\* C22: a createItem that returns, returns the namespace, a dash and the
\* counter as it stood before the call, leaves the counter one higher,
\* writes a file where there was none and leaves every other item file as
\* it was; a createItem that fails on the namespace or on validation leaves
\* the store, and with it the counter, unchanged; and no step lowers the
\* counter, so the callsigns returned one after the other are strictly
\* increasing and pairwise distinct.
C22_CallsignGeneration ==
  [][/\ NextOf(store', Namespace) >= NextOf(store, Namespace)
     /\ result'.op = "createItem" /\ result'.code = "none" =>
          /\ result'.callsign = Callsign(result'.namespace, NextOf(store, result'.namespace))
          /\ NextOf(store', result'.namespace) = NextOf(store, result'.namespace) + 1
          /\ ItemFile(store, result'.callsign) = NoFile
          /\ ItemFile(store', result'.callsign) /= NoFile
          /\ \A id \in ItemIds \ { result'.callsign } :
               ItemFile(store', id) = ItemFile(store, id)
     /\ result'.op = "createItem"
          /\ result'.code \in { ValidationError.error, NamespaceNotFoundError.error } =>
          store' = store]_vars

\* A second createItem has returned T-2 after T-1 was created, and a third
\* call failed validation.
C22_Witness ==
  /\ result.op = "createItem"
  /\ result.code = ValidationError.error
  /\ NextOf(store, Namespace) = 3
  /\ ItemFile(store, T1) /= NoFile
  /\ ItemFile(store, Callsign(Namespace, 2)) /= NoFile

---------------------------------------------------------------------------
(* C23: createItem calls of several server processes *)

\* C23 as stated: no two createItem calls that have returned were given the
\* same callsign.
C23_DistinctCallsignsAsStated ==
  \A p \in Procs, q \in Procs :
    p /= q /\ calls[p].pc = "returned" /\ calls[q].pc = "returned" =>
      calls[p].callsign /= calls[q].callsign

\* Two calls have returned the same callsign for different titles, and the
\* file holds one of them.
C23_Witness ==
  \E p \in Procs, q \in Procs :
    /\ calls[p].pc = "returned" /\ calls[q].pc = "returned"
    /\ calls[p].callsign = calls[q].callsign
    /\ calls[p].input.title /= calls[q].input.title

---------------------------------------------------------------------------
(* C24: a write succeeds in full or modifies no file *)

\* C24 as stated: a createItem, updateItem or addComment that fails leaves
\* the configuration and every work item file as they were.
C24_AtomicWritesAsStated ==
  [][result'.op \in { "createItem", "updateItem", "addComment" }
       /\ result'.code /= "none" => store' = store]_vars

\* A createItem has failed on the write of the item file: the counter
\* stands at 2 and there is no file of T-1.
C24_Witness ==
  /\ result.op = "createItem"
  /\ result.code = WriteError.error
  /\ NextOf(store, Namespace) = 2
  /\ ItemFile(store, T1) = NoFile

---------------------------------------------------------------------------
(* C25: attachArtifact replaces or appends *)

\* The references of T-1 as getItem returns them.
RefsOf(s) == getItem(s, T1).artifacts

RefsTo(refs, url) == { i \in 1..Len(refs) : refs[i].url = url }

AtMostOnce(refs) ==
  \A i \in 1..Len(refs), j \in 1..Len(refs) : refs[i].url = refs[j].url => i = j

\* C25: on every successful attachArtifact on an item whose list holds no
\* url twice, the list afterwards holds no url twice and the url of the
\* attached filename once, with the type and the title of the call; the
\* list keeps its length and every other reference when the url was there
\* and is one longer, the new reference last, when it was not; and
\* getArtifact returns the content of the call.
C25_ReplaceOrAppend ==
  [][result'.op = "attachArtifact" /\ result'.code = "none" /\ result'.id = T1
       /\ AtMostOnce(RefsOf(store)) =>
       LET input == result'.input
           url == Url(Namespace, T1, input.filename)
           before == RefsOf(store)
           after == RefsOf(store')
           at == IF RefsTo(before, url) = {} THEN Len(before) + 1
                 ELSE CHOOSE i \in RefsTo(before, url) : TRUE
       IN  /\ AtMostOnce(after)
           /\ RefsTo(after, url) = { at }
           /\ Len(after) = IF RefsTo(before, url) = {} THEN Len(before) + 1
                           ELSE Len(before)
           /\ after[at] = [type |-> input.type, title |-> input.title, url |-> url]
           /\ \A i \in 1..Len(before) : i /= at => after[i] = before[i]
           /\ getArtifact(store', T1, input.filename) = [content |-> input.content]]_vars

\* prd.md was attached again, with another type, title and content, to an
\* item that referred to it and to two other artifacts.
C25_Witness ==
  /\ result.op = "attachArtifact"
  /\ result.code = "none"
  /\ result.input.filename = "prd.md"
  /\ Len(RefsOf(store)) = 3
  /\ RefsOf(store)[1].title = "Renamed"
  /\ store.files["prd.md"] = result.input.content
  /\ store.files["prd.md"] /= StandardDoc("prd.md", "pending", NoMarkers)

---------------------------------------------------------------------------
(* C26: the round trip of a work item *)

\* C26 as stated: parseWorkItem of the serializeWorkItem of an item returns
\* the body and the activity log of the item.
C26_RoundTripAsStated ==
  result.op = "roundTrip" =>
    /\ result.body = item.body
    /\ result.activity = item.activity

\* The round trip of a body that holds the separator returned another body
\* and another log.
C26_Witness ==
  /\ result.op = "roundTrip"
  /\ item.body = << "a", ACTIVITY_SEPARATOR, "a" >>
  /\ item.activity = << >>
  /\ result.body = << "a" >>
  /\ result.activity = << "a", "\n", "\n", ACTIVITY_SEPARATOR >>

---------------------------------------------------------------------------
(* C27: the activity log is append-only *)

\* The activity log of a work item as the next read of its file returns it.
ActivityOf(s, id) == parseWorkItem(ItemFile(s, id)).activity

\* C27 as stated: after every successful updateItem and addComment the log
\* of the item is the log before the call, or the log before the call, a
\* blank line and one new entry; after an update of the body alone it is
\* the log before the call.
C27_AppendOnlyAsStated ==
  [][result'.op \in { "updateItem", "addComment" } /\ result'.code = "none" =>
       LET old == ActivityOf(store, result'.id)
           new == ActivityOf(store', result'.id)
       IN  /\ \/ new = old
              \/ new /= << >> /\ new = AppendEntry(old, new[Len(new)])
           /\ result'.op = "updateItem" /\ DOMAIN result'.changes = { "body" } =>
                new = old]_vars

\* An update of the body alone has put an entry in front of the entry the
\* log held.
C27_Witness ==
  /\ result.op = "updateItem"
  /\ result.code = "none"
  /\ DOMAIN result.changes = { "body" }
  /\ Entries(ActivityOf(store, T1)) =
       << StatusEntry("todo", "done", 0), ACTIVITY_SEPARATOR,
          StatusEntry("backlog", "todo", 0) >>

---------------------------------------------------------------------------
(* C28: stale is sticky *)

\* What the claim holds fixed: whether the body of T-1 is empty, and for a
\* kind whether its artifact exists and when it was completed (-1 for an
\* artifact without the time).
BodyEmpty(s) == BodyMissing(getItem(s, T1))

KindFacts(s, k) ==
  LET state == Recorded(s)[k]
  IN  << state.exists,
         IF HasField(state, "completedAt") THEN state.completedAt ELSE -1 >>

ChainFacts(s) == << BodyEmpty(s), [k \in ChainKinds |-> KindFacts(s, k)] >>

\* The step is one of the operations the claim lists: addComment, updateItem
\* that does not set the body, approveArtifact, attachArtifact of a file
\* outside the chain.
QuietStep ==
  \/ result'.op \in { "addComment", "approveArtifact" }
  \/ result'.op = "updateItem" /\ ~HasField(result'.changes, "body")
  \/ result'.op = "attachArtifact" /\ result'.input.filename \notin ChainKinds

\* C28: when workPromptHandler reports stale(B, A) for the item, it reports
\* the same after every step of the listed operations and after every step
\* that changes neither the emptiness of the body nor the existence or the
\* completion time of a chain artifact; and it reports a stage that is not
\* stale only after a step that emptied the body or changed the existence
\* or the completion time of A or of B.
C28_StaleIsSticky ==
  [][LET before == StageOf(store)
         after == StageOf(store')
     IN  before.type = "stale" =>
           /\ QuietStep => after = before
           /\ ChainFacts(store') = ChainFacts(store) => after = before
           /\ after.type /= "stale" =>
                \/ BodyEmpty(store')
                \/ KindFacts(store', before.artifact) /= KindFacts(store, before.artifact)
                \/ KindFacts(store', before.upstream) /= KindFacts(store, before.upstream)]_vars

\* discovery-report.md was stale against prd.md, and a comment was added:
\* it still is.
C28_Witness ==
  /\ result.op = "addComment"
  /\ result.code = "none"
  /\ LogOf(store, T1) /= << >>
  /\ StageOf(store) = Stale("discovery-report.md", "prd.md")

---------------------------------------------------------------------------
(* C29: what a result of complete tells *)

\* C29 as stated: whenever detectPipelineStage returns complete, all 8 chain
\* artifacts exist in the snapshot, both gates are approved and, when both
\* milestone counters are known, completedMilestones >= milestoneCount.
C29_CompleteAsStated ==
  Called /\ stage = Simple("complete") =>
    /\ \A k \in ChainKinds : Present(k)
    /\ \A g \in GATE_ARTIFACTS : Approved(g)
    /\ CountersKnown => MilestonesDone

\* C29 as amended: whenever detectPipelineStage returns complete, the body
\* is not blank, no adjacent pair is stale, the seven chain artifacts other
\* than progress.md exist, both gates are approved and, when both milestone
\* counters are known, completedMilestones >= milestoneCount; progress.md
\* itself may be missing.
C29_CompleteAmended ==
  Called /\ stage = Simple("complete") =>
    /\ ~Blank(item)
    /\ ~AnyStale
    /\ \A k \in ChainKinds \ { "progress.md" } : Present(k)
    /\ \A g \in GATE_ARTIFACTS : Approved(g)
    /\ CountersKnown => MilestonesDone

\* A call that returned complete on a snapshot without progress.md.
C29_Witness ==
  /\ Called
  /\ stage = Simple("complete")
  /\ ~Present("progress.md")
  /\ Present("review-report.md")
  /\ Present("qa-plan.md")

---------------------------------------------------------------------------
(* Specification of an agent that does what the detected stage asks for *)

\* The number of writes after which the agent stops.
MaxSteps == 115

\* work.ts:62-96: the artifact the prompt of a stage asks for.
Requested ==
  [prd |-> "prd.md", discovery |-> "discovery-report.md",
   architecture |-> "architecture-proposal.md", gameplan |-> "gameplan.md",
   test_generation |-> "test-coverage-matrix.md", review |-> "review-report.md",
   qa_plan |-> "qa-plan.md", architecture_review |-> "architecture-proposal.md",
   gameplan_review |-> "gameplan.md", implementation |-> "progress.md"]

\* The store after filename was attached at time t with the markers and
\* the milestone headings given, a gate awaiting its review.
Attached(s, filename, markers, headings, t) ==
  attachArtifact(s, T1,
                 AttachInput("plan", filename,
                             Content("yaml",
                                     DocData(t, IF filename \in GATE_ARTIFACTS
                                                THEN "pending" ELSE "none"),
                                     markers, headings)),
                 t).store

\* The gate was rejected at some time.
Rejected(s, filename) ==
  \E t \in 0..MaxSteps :
    \E i \in DOMAIN ActivityOf(s, T1) :
      ActivityOf(s, T1)[i] = ApprovalEntry(filename, "rejected", t)

InitHappy ==
  /\ store = EmptyStore
  /\ stage = workPromptHandler(EmptyStore, T1).stage
  /\ result = NoResult
  /\ clock = 0
  /\ calls = NoCalls
  /\ item = NoItem
  /\ artifacts = NoStates

\* The agent attaches the artifact the stage asks for, a gameplan with no,
\* two or one more than MarkerLoopLimit milestones, and asks for the stage.
Produce ==
  /\ clock < MaxSteps
  /\ stage.type \in { "prd", "discovery", "architecture", "gameplan",
                      "test_generation", "review", "qa_plan" }
  /\ \E headings \in IF stage.type = "gameplan" THEN { 0, 2, MarkerLoopLimit + 1 }
                      ELSE { 0 } :
       LET written == Attached(store, Requested[stage.type], NoMarkers, headings,
                               clock + 1)
       IN  /\ store' = written
           /\ stage' = workPromptHandler(written, T1).stage
  /\ clock' = clock + 1
  /\ result' = [op |-> "attachArtifact", filename |-> Requested[stage.type]]
  /\ UNCHANGED << item, artifacts, calls >>

\* The reviewer records a verdict on the gate under review, a rejection at
\* most once for each gate.
Review ==
  /\ clock < MaxSteps
  /\ stage.type \in { "architecture_review", "gameplan_review" }
  /\ \E verdict \in VALID_VERDICTS :
       /\ verdict = "rejected" => ~Rejected(store, Requested[stage.type])
       /\ LET written == approveArtifact(store, T1,
                                         [filename |-> Requested[stage.type],
                                          verdict |-> verdict],
                                         clock + 1).store
          IN  /\ store' = written
              /\ stage' = workPromptHandler(written, T1).stage
       /\ result' = [op |-> "approveArtifact", filename |-> Requested[stage.type],
                     verdict |-> verdict]
  /\ clock' = clock + 1
  /\ UNCHANGED << item, artifacts, calls >>

\* The agent attaches a rejected gate artifact again.
Rework ==
  /\ clock < MaxSteps
  /\ stage.type \in { "architecture_review", "gameplan_review" }
  /\ Recorded(store)[Requested[stage.type]].approval = "rejected"
  /\ \E headings \in IF stage.type = "gameplan_review" THEN { 0, 2, MarkerLoopLimit + 1 }
                      ELSE { 0 } :
       LET written == Attached(store, Requested[stage.type], NoMarkers, headings,
                               clock + 1)
       IN  /\ store' = written
           /\ stage' = workPromptHandler(written, T1).stage
  /\ clock' = clock + 1
  /\ result' = [op |-> "attachArtifact", filename |-> Requested[stage.type]]
  /\ UNCHANGED << item, artifacts, calls >>

\* During implementation(m, n) the agent attaches progress.md with the
\* markers 1..m.
Implement ==
  /\ clock < MaxSteps
  /\ stage.type = "implementation"
  /\ LET written == Attached(store, "progress.md", AllDone(stage.milestone), 0,
                             clock + 1)
     IN  /\ store' = written
         /\ stage' = workPromptHandler(written, T1).stage
  /\ clock' = clock + 1
  /\ result' = [op |-> "attachArtifact", filename |-> "progress.md"]
  /\ UNCHANGED << item, artifacts, calls >>

NextHappy == Produce \/ Review \/ Rework \/ Implement

\* A write is made while the stage asks for something: an artifact, a
\* verdict, a milestone.
Step ==
  /\ clock < MaxSteps
  /\ stage.type \in DOMAIN Requested
  /\ clock' = clock + 1

\* The agent and the reviewer keep going while the stage asks for
\* something: every step of NextHappy is a write, and one is possible
\* exactly when the stage asks for something.
SpecHappy == InitHappy /\ [][NextHappy]_vars /\ WF_clock(Step)

---------------------------------------------------------------------------
(* C30: progress on the happy path *)

\* The place of a stage in the order prd, discovery, architecture,
\* architecture_review, gameplan, gameplan_review, test_generation,
\* implementation(1..n), review, qa_plan, complete; 0 for any other stage.
Rank(st) ==
  LET before == << "prd", "discovery", "architecture", "architecture_review",
                   "gameplan", "gameplan_review", "test_generation" >>
      after == << "review", "qa_plan", "complete" >>
  IN  IF \E i \in DOMAIN before : before[i] = st.type
      THEN CHOOSE i \in DOMAIN before : before[i] = st.type
      ELSE IF st.type = "implementation" THEN Len(before) + st.milestone
      ELSE IF \E i \in DOMAIN after : after[i] = st.type
      THEN Len(before) + MarkerLoopLimit + 1
             + CHOOSE i \in DOMAIN after : after[i] = st.type
      ELSE 0

NeverStale == [](stage.type /= "stale")

NeverBackwards == [][Rank(stage) > 0 /\ Rank(stage') >= Rank(stage)]_vars

\* gameplan.md holds more milestones than the marker loop counts.
BeyondLoopLimit ==
  /\ store.files["gameplan.md"] /= NoFile
  /\ Headings(store.files["gameplan.md"]) > MarkerLoopLimit

====
